---------------------------- MODULE Spec2Model ----------------------------
(***************************************************************************)
(* A model of the goal-tracking dashboard server (src/unnamed/part_000)    *)
(* and of its configuration (src/goals.config.js): the task classifier,    *)
(* the progress aggregator, the chunked fetch of completed tasks and the   *)
(* cache of computed periods.                                              *)
(*                                                                         *)
(* Text is modelled as TLA+ strings read character by character (Len,      *)
(* SubSeq, \o), so that String.includes, toLowerCase and the regular       *)
(* expressions of the pattern library are computed on the characters of a  *)
(* task name and not assumed.                                              *)
(***************************************************************************)
EXTENDS Integers, Sequences, FiniteSets, TLC

(***************************************************************************)
(* JavaScript values that may be absent (null or undefined): the empty     *)
(* sequence is the absent value, a one-element sequence holds the value.   *)
(***************************************************************************)
None == <<>>
Some(v) == <<v>>
IsNone(o) == Len(o) = 0
IsSome(o) == Len(o) = 1
Val(o) == o[1]

(***************************************************************************)
(* Strings                                                                 *)
(***************************************************************************)
UpperToLower ==
  [A |-> "a", B |-> "b", C |-> "c", D |-> "d", E |-> "e", F |-> "f", G |-> "g",
   H |-> "h", I |-> "i", J |-> "j", K |-> "k", L |-> "l", M |-> "m", N |-> "n",
   O |-> "o", P |-> "p", Q |-> "q", R |-> "r", S |-> "s", T |-> "t", U |-> "u",
   V |-> "v", W |-> "w", X |-> "x", Y |-> "y", Z |-> "z"]

UpperCase == DOMAIN UpperToLower

LowerChar(c) == IF c \in UpperCase THEN UpperToLower[c] ELSE c

RECURSIVE LowerFrom(_, _)
LowerFrom(s, i) ==
  IF i > Len(s) THEN "" ELSE LowerChar(SubSeq(s, i, i)) \o LowerFrom(s, i + 1)

\* String.prototype.toLowerCase
toLowerCase(s) == LowerFrom(s, 1)

\* String.prototype.includes
includes(s, w) ==
  \E i \in 1..(Len(s) - Len(w) + 1) : SubSeq(s, i, i + Len(w) - 1) = w

(***************************************************************************)
(* Regular expressions.  A pattern is a tree:                              *)
(*   <<"lit", w>>   the characters of w                                    *)
(*   <<"set", S>>   one character of the set S  ([ds], \s, \d)             *)
(*   <<"wb">>       a word boundary  (\b)                                  *)
(*   <<"seq", rs>>  the patterns of the sequence rs, one after the other   *)
(*   <<"alt", rs>>  one of the patterns of rs  (a|b)                       *)
(*   <<"opt", r>>   r?      <<"star", r>>  r*      <<"plus", r>>  r+       *)
(* Ends(r, s, i) is the set of positions at which a match of r that        *)
(* starts at position i of s can end (the position after its last          *)
(* character).  None of the program's patterns has a back-reference or a   *)
(* look-around, so RegExp.test is the existence of a start with an end.    *)
(***************************************************************************)
Lit(w) == <<"lit", w>>
Cls(S) == <<"set", S>>
WB == <<"wb">>
Cat(rs) == <<"seq", rs>>
Alt(rs) == <<"alt", rs>>
Opt(r) == <<"opt", r>>
Star(r) == <<"star", r>>
Plus(r) == <<"plus", r>>

\* \s and \d
Space == Cls({" ", "\t", "\n", "\r"})
Digit == Cls({"0", "1", "2", "3", "4", "5", "6", "7", "8", "9"})

\* \w
WordChars ==
  {"a", "b", "c", "d", "e", "f", "g", "h", "i", "j", "k", "l", "m", "n", "o",
   "p", "q", "r", "s", "t", "u", "v", "w", "x", "y", "z",
   "0", "1", "2", "3", "4", "5", "6", "7", "8", "9", "_"}
   \cup UpperCase

IsWordAt(s, i) == i >= 1 /\ i <= Len(s) /\ SubSeq(s, i, i) \in WordChars

RECURSIVE Ends(_, _, _)
RECURSIVE SeqEnds(_, _, _, _)
RECURSIVE StarEnds(_, _, _, _)

Ends(r, s, i) ==
  CASE r[1] = "lit" ->
         IF i + Len(r[2]) - 1 <= Len(s) /\ SubSeq(s, i, i + Len(r[2]) - 1) = r[2]
         THEN {i + Len(r[2])} ELSE {}
    [] r[1] = "set" ->
         IF i <= Len(s) /\ SubSeq(s, i, i) \in r[2] THEN {i + 1} ELSE {}
    [] r[1] = "wb" ->
         IF IsWordAt(s, i - 1) # IsWordAt(s, i) THEN {i} ELSE {}
    [] r[1] = "seq" -> SeqEnds(r[2], 1, s, {i})
    [] r[1] = "alt" -> UNION {Ends(r[2][k], s, i) : k \in DOMAIN r[2]}
    [] r[1] = "opt" -> {i} \cup Ends(r[2], s, i)
    [] r[1] = "star" -> StarEnds(r[2], s, {i}, {i})
    [] r[1] = "plus" ->
         LET first == Ends(r[2], s, i) IN StarEnds(r[2], s, first, first)

SeqEnds(rs, k, s, from) ==
  IF k > Len(rs) \/ from = {} THEN from
  ELSE SeqEnds(rs, k + 1, s, UNION {Ends(rs[k], s, p) : p \in from})

StarEnds(r, s, frontier, acc) ==
  LET more == (UNION {Ends(r, s, p) : p \in frontier}) \ acc
  IN  IF more = {} THEN acc ELSE StarEnds(r, s, more, acc \cup more)

\* RegExp.prototype.test of a pattern written with the i flag (and without g):
\* every pattern of the program is written in lower case.
test(r, s) ==
  LET t == toLowerCase(s)
  IN  \E i \in 1..(Len(t) + 1) : Ends(r, t, i) # {}

\* Array.prototype.some over a list of patterns
some(patterns, s) == \E k \in DOMAIN patterns : test(patterns[k], s)


(***************************************************************************)
(* The pattern library                                                     *)
(***************************************************************************)
\* post(ed|ing)?\s+(on|to)
PostedOnTo ==
  Cat(<<Lit("post"), Opt(Alt(<<Lit("ed"), Lit("ing")>>)), Plus(Space),
        Alt(<<Lit("on"), Lit("to")>>)>>)

\* doc(s|umentation)?\s*(for\s+)?goose
DocsForGoose ==
  Cat(<<Lit("doc"), Opt(Alt(<<Lit("s"), Lit("umentation")>>)), Star(Space),
        Opt(Cat(<<Lit("for"), Plus(Space)>>)), Lit("goose")>>)

EXCLUSION_PATTERNS ==
     "Blog posts" :>
         << Lit("promo"),
            Lit("promot"),
            \* share[ds]?\s+(the\s+)?blog
            Cat(<<Lit("share"), Opt(Cls({"d", "s"})), Plus(Space),
                  Opt(Cat(<<Lit("the"), Plus(Space)>>)), Lit("blog")>>),
            \* post(ed|ing)?\s+(on|to)\s+(social|twitter|linkedin|x\b)
            Cat(<<PostedOnTo, Plus(Space),
                  Alt(<<Lit("social"), Lit("twitter"), Lit("linkedin"),
                        Cat(<<Lit("x"), WB>>)>>)>>),
            Cat(<<Lit("social"), Star(Space), Lit("media")>>),
            Lit("automat") >>
  @@ "Shorts" :>
         << Lit("schedul"),
            PostedOnTo,
            Cat(<<Lit("share"), Opt(Cls({"d", "s"}))>>),
            Lit("social"),
            Lit("distribute"),
            Lit("upload"),
            Lit("promo") >>
  @@ "Tutorial videos" :>
         << Lit("schedul"),
            PostedOnTo,
            Cat(<<Lit("share"), Opt(Cls({"d", "s"}))>>),
            Lit("social"),
            Lit("distribute"),
            Lit("promo") >>
  @@ "Newsletter issues" :>
         << Lit("prep"),
            Cat(<<Lit("plan"), Opt(Lit("ning"))>>),
            Lit("draft"),
            Lit("outline"),
            Lit("idea") >>
  @@ "Metrics reports" :>
         << Lit("expense"),
            Cat(<<Lit("status"), Star(Space), Lit("report")>>),
            Cat(<<Lit("weekly"), Star(Space), Lit("report")>>),
            Cat(<<Lit("progress"), Star(Space), Lit("report")>>) >>
  @@ "goose contributions" :>
         << Lit("session"),
            Lit("meeting"),
            Cat(<<Lit("prep"), Opt(Alt(<<Lit("are"), Lit("aring")>>))>>),
            Lit("schedul"),
            Lit("demo"),
            Lit("review"),
            Lit("learn"),
            Cat(<<Lit("test"), Opt(Lit("ing")), Plus(Space), Lit("goose")>>),
            Cat(<<Lit("goose"), Star(Space), Lit("doc")>>),
            DocsForGoose >>
  @@ "Docs" :> << Lit("expense") >>

CONFIRMATION_PATTERNS ==
     "goose contributions" :>
         << Cat(<<WB, Lit("pr"), WB>>),
            Cat(<<Lit("pull"), Star(Space), Lit("request")>>),
            Cat(<<Lit("merg"), Alt(<<Lit("e"), Lit("ed"), Lit("ing")>>)>>),
            Cat(<<Lit("fix"), Opt(Alt(<<Lit("ed"), Lit("ing"), Lit("es")>>)), WB>>),
            Cat(<<WB, Lit("bug"), WB>>),
            Lit("feature"),
            Lit("contribut"),
            Lit("implement"),
            Cat(<<Lit("ship"), Opt(Alt(<<Lit("ped"), Lit("ping")>>))>>),
            Cat(<<Lit("issue"), Star(Space), Opt(Lit("#")), Plus(Digit)>>),
            Lit("resolv"),
            Cat(<<Lit("clos"), Alt(<<Lit("e"), Lit("ed"), Lit("ing")>>)>>) >>
  @@ "Blog posts" :>
         << Cat(<<Lit("wr"), Opt(Lit("o")), Lit("te")>>),
            Cat(<<Lit("writ"), Alt(<<Lit("e"), Lit("ing"), Lit("ten")>>)>>),
            Lit("publish"),
            Lit("draft"),
            Cat(<<WB, Lit("blog"), Star(Space),
                  Alt(<<Lit("post"), Lit("article")>>)>>),
            Lit("author") >>
  @@ "Metrics reports" :>
         << Lit("metrics"),
            Cat(<<Lit("community"), Star(Space),
                  Alt(<<Lit("metrics"), Lit("report")>>)>>),
            Lit("analytics"),
            Cat(<<Lit("discord"), Star(Space),
                  Alt(<<Lit("metrics"), Lit("stats")>>)>>),
            Cat(<<Lit("github"), Star(Space),
                  Alt(<<Lit("metrics"), Lit("stats")>>)>>) >>
  @@ "Side projects" :>
         << Cat(<<Lit("side"), Star(Space), Lit("project")>>),
            Cat(<<WB, Lit("repo"), WB>>),
            Lit("repositor"),
            Lit("built"),
            Lit("building"),
            Cat(<<Lit("ship"), Opt(Lit("ped"))>>) >>

\* The pattern names in the order of Object.entries(AGENTIC_PATTERNS)
AgenticPatternNames ==
  << "MCP Apps", "MCP Sampling", "Skills", "Elicitation", "Recipes", "Subagents",
     "Code Mode", "ACP", "RPI", "Ralph Wiggum Loop", "Context Engineering",
     "ai-rules", "Plans", "Beads" >>

AGENTIC_PATTERNS ==
     "MCP Apps" :> << Cat(<<Lit("mcp"), Star(Space), Lit("app")>>) >>
  @@ "MCP Sampling" :>
         << Cat(<<Lit("mcp"), Star(Space), Lit("sampl")>>),
            Cat(<<WB, Lit("sampling"), WB>>) >>
  @@ "Skills" :> << Lit("skill"), Lit("taste") >>
  @@ "Elicitation" :> << Lit("elicit") >>
  @@ "Recipes" :> << Lit("recipe") >>
  @@ "Subagents" :> << Lit("subagent"), Lit("sub-agent") >>
  @@ "Code Mode" :>
         << Cat(<<Lit("code"), Star(Space), Lit("mode")>>) >>
  @@ "ACP" :>
         << Cat(<<WB, Lit("acp"), WB>>),
            Cat(<<Lit("agent"), Star(Space), Lit("client"), Star(Space),
                  Lit("protocol")>>) >>
  @@ "RPI" :> << Cat(<<WB, Lit("rpi"), WB>>) >>
  @@ "Ralph Wiggum Loop" :> << Lit("ralph") >>
  @@ "Context Engineering" :>
         << Cat(<<Lit("context"), Star(Space), Lit("engineer")>>),
            \* agents\.md
            Lit("agents.md"),
            Lit("goosehints") >>
  @@ "ai-rules" :>
         << Lit("ai-rules"), Cat(<<Lit("ai"), Star(Space), Lit("rules")>>) >>
  @@ "Plans" :>
         << Cat(<<WB, Lit("plan"), Opt(Lit("s")), WB>>),
            Cat(<<Lit("planning"), Star(Space), Lit("mode")>>) >>
  @@ "Beads" :> << Cat(<<WB, Lit("bead"), Opt(Lit("s")), WB>>) >>

CONTENT_DELIVERABLES ==
  {"Tutorial videos", "Shorts", "Blog posts", "Vibe Code w/ goose streams"}

\* The names of the patterns that the text mentions, in the order of
\* AGENTIC_PATTERNS, each once.
detectAgenticPatterns(taskName) ==
  SelectSeq(AgenticPatternNames,
            LAMBDA patternName : some(AGENTIC_PATTERNS[patternName], taskName))

\* Mutant: the lookup misses the pattern list, so nothing is ever excluded.
isExcluded_NoPatterns(taskName, category) == FALSE

isExcluded(taskName, category) ==
  IF category \notin DOMAIN EXCLUSION_PATTERNS THEN FALSE
  ELSE some(EXCLUSION_PATTERNS[category], taskName)

\* Mutant: every name counts as confirmed.
hasConfirmation_Always(taskName, category) == TRUE

hasConfirmation(taskName, category) ==
  IF category \notin DOMAIN CONFIRMATION_PATTERNS THEN TRUE
  ELSE some(CONFIRMATION_PATTERNS[category], taskName)


(***************************************************************************)
(* Tag tables (goals.config.js)                                            *)
(***************************************************************************)
Mapping(category, deliverable) ==
  [kind |-> "mapping", category |-> category, deliverable |-> deliverable]

\* What categorizeTask returns when no rule matches, and the exception it
\* raises when it reads a property of an absent value.
NULL == [kind |-> "null"]
TypeError == [kind |-> "TypeError"]

SideProjectGid == "1212903104247034"
CfpGid == "1212892322315514"
GooseContributionGid == "1212903104247031"
GooseGid == "1208438924809387"
VideoTutorialGid == "1208125190486880"
TutorialGid == "1204316592156255"
VideoGid == "1204316592156190"
BlogGid == "1204316592156209"
LivestreamGid == "1205607058770995"
PublicSpeakingGid == "1204316592156237"
PodcastGid == "1204316592156228"
WorkshopGid == "1206441534238594"
NewsletterGid == "1200006700367828"
CommunityGid == "1204364638447788"
DocumentationGid == "1204316592156189"
GuideGid == "1204463482160284"
InternalDevrelGid == "1207924330531310"

TAG_CATEGORY_MAP ==
     SideProjectGid :> Mapping("Build", "Side projects")
  @@ GooseGid :> Mapping("Build", "goose contributions")
  @@ GooseContributionGid :> Mapping("Build", "goose contributions")
  @@ VideoTutorialGid :> Mapping("Videos", "Tutorial videos")
  @@ TutorialGid :> Mapping("Videos", "Tutorial videos")
  @@ VideoGid :> Mapping("Videos", "Shorts")
  @@ BlogGid :> Mapping("Blogs", "Blog posts")
  @@ LivestreamGid :>
         Mapping("Livestreams", "Vibe Code w/ goose streams")
  @@ CfpGid :>
         Mapping("Public Speaking", "CFPs (submitted or accepted)")
  @@ PublicSpeakingGid :>
         Mapping("Public Speaking", "Talks delivered")
  @@ PodcastGid :> Mapping("Public Speaking", "Podcast recordings")
  @@ WorkshopGid :> Mapping("Public Speaking", "Talks delivered")
  @@ NewsletterGid :> Mapping("Community", "Newsletter issues")
  @@ CommunityGid :> Mapping("Community", "Community")
  @@ DocumentationGid :> Mapping("Documentation", "Docs")
  @@ GuideGid :> Mapping("Documentation", "Docs")
  @@ InternalDevrelGid :> Mapping("Documentation", "Docs")

TAG_NAME_MAP ==
     "side project" :> Mapping("Build", "Side projects")
  @@ "goose" :> Mapping("Build", "goose contributions")
  @@ "goose contribution" :> Mapping("Build", "goose contributions")
  @@ "video tutorial" :> Mapping("Videos", "Tutorial videos")
  @@ "tutorial" :> Mapping("Videos", "Tutorial videos")
  @@ "video" :> Mapping("Videos", "Shorts")
  @@ "blog" :> Mapping("Blogs", "Blog posts")
  @@ "livestream" :>
         Mapping("Livestreams", "Vibe Code w/ goose streams")
  @@ "cfp" :>
         Mapping("Public Speaking", "CFPs (submitted or accepted)")
  @@ "public speaking" :>
         Mapping("Public Speaking", "Talks delivered")
  @@ "podcast" :> Mapping("Public Speaking", "Podcast recordings")
  @@ "workshop" :> Mapping("Public Speaking", "Talks delivered")
  @@ "newsletter" :> Mapping("Community", "Newsletter issues")
  @@ "community" :> Mapping("Community", "Community")
  @@ "documentation" :> Mapping("Documentation", "Docs")
  @@ "guide" :> Mapping("Documentation", "Docs")
  @@ "internal devrel" :> Mapping("Documentation", "Docs")

(***************************************************************************)
(* categorizeTask.  A task is a record whose name and tags may be absent;  *)
(* a tag is a record whose gid and name may be absent.                     *)
(***************************************************************************)
\* t.gid === gid
GidIs(t, gid) == IsSome(t.gid) /\ Val(t.gid) = gid

\* t.name?.toLowerCase() === name
NameIs(t, name) == IsSome(t.name) /\ toLowerCase(Val(t.name)) = name

hasSideProjectTag(tags) ==
  \E k \in DOMAIN tags :
     GidIs(tags[k], SideProjectGid) \/ NameIs(tags[k], "side project")

hasCfpTag(tags) ==
  \E k \in DOMAIN tags : GidIs(tags[k], CfpGid) \/ NameIs(tags[k], "cfp")

hasGooseContributionTag(tags) ==
  \E k \in DOMAIN tags :
     GidIs(tags[k], GooseContributionGid) \/ NameIs(tags[k], "goose contribution")

\* Phase 0: the result when a priority tag decides, None otherwise.
Phase0(tags) ==
  IF hasSideProjectTag(tags) THEN Some(Mapping("Build", "Side projects"))
  ELSE IF hasCfpTag(tags)
  THEN Some(Mapping("Public Speaking", "CFPs (submitted or accepted)"))
  ELSE IF hasGooseContributionTag(tags)
  THEN Some(Mapping("Build", "goose contributions"))
  ELSE None

\* The short-form indicators the video tag looks for
VideoTagShortIndicator(taskName) ==
  /\ \/ includes(taskName, "short")
     \/ includes(taskName, "[shorts]")
     \/ includes(taskName, "quick tip")
     \/ test(Cat(<<Lit("under"), Star(Space),
                   Alt(<<Lit("60"), Cat(<<Lit("1"), Star(Space), Lit("min")>>)>>)>>),
             taskName)
  /\ ~includes(taskName, "shortcut")

TutorialKeyword(taskName) ==
  \/ includes(taskName, "tutorial")
  \/ includes(taskName, "plug & play")
  \/ includes(taskName, "plug and play")
  \/ includes(taskName, "flight school")

\* The body of the identifier loop for the video tag
VideoTagBranch(tags, taskName, taskNameOriginal) ==
  LET hasTutorialTag ==
        \E k \in DOMAIN tags :
           GidIs(tags[k], VideoTutorialGid) \/ GidIs(tags[k], TutorialGid)
  IN  IF VideoTagShortIndicator(taskName) /\ ~isExcluded(taskNameOriginal, "Shorts")
      THEN Some(Mapping("Videos", "Shorts"))
      ELSE IF (hasTutorialTag \/ TutorialKeyword(taskName))
              /\ ~isExcluded(taskNameOriginal, "Tutorial videos")
      THEN Some(Mapping("Videos", "Tutorial videos"))
      ELSE IF ~isExcluded(taskNameOriginal, "Shorts")
      THEN Some(Mapping("Videos", "Shorts"))
      ELSE None

\* Mutant: a tutorial tag is a video tutorial whatever else the task has.
TutorialTagBranch_AlwaysVideo(tags, taskName) ==
  Some(Mapping("Videos", "Tutorial videos"))

\* The body of the identifier loop for a tutorial tag
TutorialTagBranch(tags, taskName) ==
  LET hasVideoTag == \E k \in DOMAIN tags : GidIs(tags[k], VideoGid)
      hasVideoKeyword ==
        \/ includes(taskName, "video")
        \/ includes(taskName, "filmed")
        \/ includes(taskName, "recorded")
        \/ includes(taskName, "youtube")
  IN  IF hasVideoTag \/ hasVideoKeyword
      THEN Some(Mapping("Videos", "Tutorial videos"))
      ELSE Some(Mapping("Documentation", "Docs"))

\* Mutant: the generic goose tag is accepted without a confirmation.
GooseTagBranch_NoConfirmation(taskNameOriginal) ==
  IF isExcluded(taskNameOriginal, "goose contributions") THEN None
  ELSE Some(Mapping("Build", "goose contributions"))

\* The generic goose tag, by identifier and by name
GooseTagBranch(taskNameOriginal) ==
  IF isExcluded(taskNameOriginal, "goose contributions") THEN None
  ELSE IF hasConfirmation(taskNameOriginal, "goose contributions")
  THEN Some(Mapping("Build", "goose contributions"))
  ELSE None

\* One iteration of the identifier loop: the value returned, or None when
\* the loop goes on to the next tag.
Phase1Tag(tags, tag, taskName, taskNameOriginal) ==
  IF IsNone(tag.gid) \/ Val(tag.gid) \notin DOMAIN TAG_CATEGORY_MAP THEN None
  ELSE LET gid == Val(tag.gid)
           mapping == TAG_CATEGORY_MAP[gid]
       IN  IF gid \in {SideProjectGid, CfpGid, GooseContributionGid} THEN None
           ELSE IF gid = VideoGid
           THEN VideoTagBranch(tags, taskName, taskNameOriginal)
           ELSE IF gid \in {VideoTutorialGid, TutorialGid}
           THEN TutorialTagBranch(tags, taskName)
           ELSE IF gid = GooseContributionGid
           THEN Some(Mapping("Build", "goose contributions"))
           ELSE IF gid = GooseGid
           THEN GooseTagBranch(taskNameOriginal)
           ELSE IF ~isExcluded(taskNameOriginal, mapping.deliverable)
           THEN Some(mapping)
           ELSE None

RECURSIVE Phase1(_, _, _, _)
Phase1(tags, k, taskName, taskNameOriginal) ==
  IF k > Len(tags) THEN None
  ELSE LET r == Phase1Tag(tags, tags[k], taskName, taskNameOriginal)
       IN  IF IsSome(r) THEN r ELSE Phase1(tags, k + 1, taskName, taskNameOriginal)

\* One iteration of the name loop; tag.name.toLowerCase() raises a TypeError
\* when the tag has no name.
Phase2Tag(tag, taskNameOriginal) ==
  IF IsNone(tag.name) THEN Some(TypeError)
  ELSE LET tagNameLower == toLowerCase(Val(tag.name))
       IN  IF tagNameLower \notin DOMAIN TAG_NAME_MAP THEN None
           ELSE IF tagNameLower = "goose contribution"
           THEN Some(Mapping("Build", "goose contributions"))
           ELSE IF tagNameLower = "goose"
           THEN GooseTagBranch(taskNameOriginal)
           ELSE IF ~isExcluded(taskNameOriginal,
                               TAG_NAME_MAP[tagNameLower].deliverable)
           THEN Some(TAG_NAME_MAP[tagNameLower])
           ELSE None

RECURSIVE Phase2(_, _, _)
Phase2(tags, k, taskNameOriginal) ==
  IF k > Len(tags) THEN None
  ELSE LET r == Phase2Tag(tags[k], taskNameOriginal)
       IN  IF IsSome(r) THEN r ELSE Phase2(tags, k + 1, taskNameOriginal)


\* The positive keyword of each rule of the keyword phase
ShortsKeyword(taskName) ==
  \/ includes(taskName, "[shorts]")
  \/ includes(taskName, "quick tip")
  \/ (includes(taskName, "short") /\ ~includes(taskName, "shortcut"))

\* Mutant: a recording is not taken as evidence of a video.
hasVideoIndicator_NoRecorded(taskName) ==
  \/ includes(taskName, "video")
  \/ includes(taskName, "filmed")
  \/ includes(taskName, "youtube")
  \/ (includes(taskName, "published") /\ ~includes(taskName, "doc")
        /\ ~includes(taskName, "blog"))

hasVideoIndicator(taskName) ==
  \/ includes(taskName, "video")
  \/ includes(taskName, "filmed")
  \/ includes(taskName, "recorded")
  \/ includes(taskName, "youtube")
  \/ (includes(taskName, "published") /\ ~includes(taskName, "doc")
        /\ ~includes(taskName, "blog"))

WrittenTutorialKeyword(taskName) ==
  \/ includes(taskName, "tutorial")
  \/ includes(taskName, "plug & play")
  \/ includes(taskName, "plug and play")

LivestreamKeyword(taskName) ==
  \/ includes(taskName, "livestream")
  \/ includes(taskName, "vibe code")
  \/ (includes(taskName, "stream") /\ includes(taskName, "goose"))

BlogKeyword(taskName) == includes(taskName, "blog") \/ includes(taskName, "article")

CfpKeyword(taskName) ==
  \/ includes(taskName, "cfp")
  \/ (includes(taskName, "submit")
        /\ (includes(taskName, "conference") \/ includes(taskName, "talk")))

PodcastKeyword(taskName) ==
  \/ includes(taskName, "podcast")
  \/ includes(taskName, "guest recording")
  \/ (includes(taskName, "recording") /\ includes(taskName, "guest"))

TalkKeyword(taskName) ==
  \/ includes(taskName, "keynote")
  \/ includes(taskName, "workshop")
  \/ (includes(taskName, "talk")
        /\ (includes(taskName, "deliver") \/ includes(taskName, "gave")
              \/ includes(taskName, "present")))

MetricsKeyword(taskName) ==
  includes(taskName, "metrics") \/ includes(taskName, "report")

SideProjectKeyword(taskName) ==
  includes(taskName, "side project") \/ includes(taskName, "sideproject")

GooseDocsKeyword(taskName, taskNameOriginal) ==
  \/ includes(taskName, "goose doc")
  \/ includes(taskName, "goose-doc")
  \/ test(DocsForGoose, taskNameOriginal)
  \/ (includes(taskName, "goose") /\ includes(taskName, "documentation"))

DocsKeyword(taskName) ==
  \/ includes(taskName, "documentation")
  \/ (includes(taskName, "doc")
        /\ (includes(taskName, "wrote") \/ includes(taskName, "update")
              \/ includes(taskName, "add")))

\* Phase 3: the cascade of keyword rules over the task name
Phase3(taskName, taskNameOriginal) ==
  IF ShortsKeyword(taskName) /\ ~isExcluded(taskNameOriginal, "Shorts")
  THEN Mapping("Videos", "Shorts")
  ELSE IF TutorialKeyword(taskName) /\ hasVideoIndicator(taskName)
          /\ ~isExcluded(taskNameOriginal, "Tutorial videos")
  THEN Mapping("Videos", "Tutorial videos")
  ELSE IF WrittenTutorialKeyword(taskName) /\ ~hasVideoIndicator(taskName)
          /\ ~isExcluded(taskNameOriginal, "Docs")
  THEN Mapping("Documentation", "Docs")
  ELSE IF LivestreamKeyword(taskName)
  THEN Mapping("Livestreams", "Vibe Code w/ goose streams")
  ELSE IF BlogKeyword(taskName) /\ ~isExcluded(taskNameOriginal, "Blog posts")
          /\ hasConfirmation(taskNameOriginal, "Blog posts")
  THEN Mapping("Blogs", "Blog posts")
  ELSE IF CfpKeyword(taskName)
  THEN Mapping("Public Speaking", "CFPs (submitted or accepted)")
  ELSE IF PodcastKeyword(taskName)
  THEN Mapping("Public Speaking", "Podcast recordings")
  ELSE IF TalkKeyword(taskName)
  THEN Mapping("Public Speaking", "Talks delivered")
  ELSE IF includes(taskName, "newsletter")
          /\ ~isExcluded(taskNameOriginal, "Newsletter issues")
  THEN Mapping("Community", "Newsletter issues")
  ELSE IF includes(taskName, "spotlight")
  THEN Mapping("Community", "Spotlights")
  ELSE IF MetricsKeyword(taskName)
          /\ ~isExcluded(taskNameOriginal, "Metrics reports")
          /\ hasConfirmation(taskNameOriginal, "Metrics reports")
  THEN Mapping("Community", "Metrics reports")
  ELSE IF includes(taskName, "goose")
          /\ ~isExcluded(taskNameOriginal, "goose contributions")
          /\ hasConfirmation(taskNameOriginal, "goose contributions")
  THEN Mapping("Build", "goose contributions")
  ELSE IF SideProjectKeyword(taskName)
          /\ hasConfirmation(taskNameOriginal, "Side projects")
  THEN Mapping("Build", "Side projects")
  ELSE IF GooseDocsKeyword(taskName, taskNameOriginal)
          /\ ~isExcluded(taskNameOriginal, "Docs")
  THEN Mapping("Documentation", "Docs")
  ELSE IF DocsKeyword(taskName) /\ ~isExcluded(taskNameOriginal, "Docs")
  THEN Mapping("Documentation", "Docs")
  ELSE NULL

\* task.tags || []
TagsOf(task) == IF IsNone(task.tags) THEN <<>> ELSE Val(task.tags)

\* Mutant: the tag loops run before the priority tags are looked at.
categorizeTask_TagsBeforePriority(task) ==
  IF IsNone(task.name) THEN TypeError
  ELSE LET tags == TagsOf(task)
           taskNameOriginal == Val(task.name)
           taskName == toLowerCase(taskNameOriginal)
           p0 == Phase0(tags)
           p1 == Phase1(tags, 1, taskName, taskNameOriginal)
           p2 == Phase2(tags, 1, taskNameOriginal)
       IN  IF IsSome(p1) THEN Val(p1)
           ELSE IF IsSome(p2) THEN Val(p2)
           ELSE IF IsSome(p0) THEN Val(p0)
           ELSE Phase3(taskName, taskNameOriginal)

\* Mutant: the name loop runs before the identifier loop.
categorizeTask_NamesBeforeIdentifiers(task) ==
  IF IsNone(task.name) THEN TypeError
  ELSE LET tags == TagsOf(task)
           taskNameOriginal == Val(task.name)
           taskName == toLowerCase(taskNameOriginal)
           p0 == Phase0(tags)
           p1 == Phase1(tags, 1, taskName, taskNameOriginal)
           p2 == Phase2(tags, 1, taskNameOriginal)
       IN  IF IsSome(p0) THEN Val(p0)
           ELSE IF IsSome(p2) THEN Val(p2)
           ELSE IF IsSome(p1) THEN Val(p1)
           ELSE Phase3(taskName, taskNameOriginal)

\* categorizeTask(task): a mapping, NULL, or TypeError when the call throws
\* (task.name.toLowerCase() of an absent name, tag.name.toLowerCase() of an
\* absent tag name in the name loop).
categorizeTask(task) ==
  IF IsNone(task.name) THEN TypeError
  ELSE LET tags == TagsOf(task)
           taskNameOriginal == Val(task.name)
           taskName == toLowerCase(taskNameOriginal)
           p0 == Phase0(tags)
           p1 == Phase1(tags, 1, taskName, taskNameOriginal)
           p2 == Phase2(tags, 1, taskNameOriginal)
       IN  IF IsSome(p0) THEN Val(p0)
           ELSE IF IsSome(p1) THEN Val(p1)
           ELSE IF IsSome(p2) THEN Val(p2)
           ELSE Phase3(taskName, taskNameOriginal)


(***************************************************************************)
(* calculateProgress.  The goals of a period are modelled by the set of    *)
(* <<category, deliverable>> pairs they declare (the targets are not read  *)
(* by the aggregation).  A task here also has a gid, a completion time,    *)
(* an assignee and followers.                                              *)
(***************************************************************************)
EXCLUDED_ASSIGNEES == {"Anthony Giuliano", "Eva Sasson", "Adewale Abati"}

AgenticSlot == <<"Build", "Agentic patterns owned">>

Range(seq) == {seq[k] : k \in DOMAIN seq}

\* Mutant: only the patterns of the first task that has patterns are kept.
AddAll_FirstTaskOnly(found, patterns, k) ==
  IF Len(found) > 0 THEN found ELSE patterns

\* Set.prototype.add of each element of a list, in insertion order
RECURSIVE AddAll(_, _, _)
AddAll(found, patterns, k) ==
  IF k > Len(patterns) THEN found
  ELSE AddAll(IF patterns[k] \in Range(found) THEN found
              ELSE Append(found, patterns[k]),
              patterns, k + 1)

\* task.assignee?.name
AssigneeName(t) == t.assignee

\* The display record of a counted task
TaskData(t) ==
  LET assigneeName == AssigneeName(t)
  IN  [ gid |-> t.gid,
        name |-> Val(t.name),
        completed_at |-> t.completed_at,
        assignee |-> IF IsSome(assigneeName) THEN Val(assigneeName)
                     ELSE "Unassigned",
        collaborators |->
          SelectSeq(t.followers,
                    LAMBDA n : Some(n) # assigneeName /\ n \notin EXCLUDED_ASSIGNEES),
        tags |-> [k \in DOMAIN TagsOf(t) |-> TagsOf(t)[k].name],
        agenticPatterns |-> detectAgenticPatterns(Val(t.name)) ]

\* The zero count and the empty list of every declared pair
EmptyProgress(goals) == [pair \in goals |-> [completed |-> 0, tasks |-> <<>>]]

\* Mutant: the task is listed but the count is not incremented.
CountTask_NoIncrement(slot, taskData) ==
  [slot EXCEPT !.tasks = Append(@, taskData)]

\* completed++ and tasks.push(taskData)
CountTask(slot, taskData) ==
  [slot EXCEPT !.completed = @ + 1, !.tasks = Append(@, taskData)]

\* The value of a one-element set: TheOne({F(v) : v \in {e}}) is F(e) with e
\* computed once.
TheOne(S) == CHOOSE x \in S : TRUE

\* The body of the loop for a task that classifies into the declared pair of
\* mapping: the count, the list, and for content with patterns the set
\* agenticPatternsFound and the list agenticPatternsTasks.
CountDeclared(acc, mapping, taskData) ==
  LET pair == <<mapping.category, mapping.deliverable>>
      patterns == taskData.agenticPatterns
      counted == [acc EXCEPT !.progress[pair] = CountTask(@, taskData)]
  IN  IF mapping.deliverable \in CONTENT_DELIVERABLES /\ Len(patterns) > 0
      THEN [counted EXCEPT
              !.found = AddAll(@, patterns, 1),
              !.patternTasks =
                 Append(@, taskData @@
                            [sourceDeliverable |-> mapping.deliverable])]
      ELSE counted

\* The body of the loop for task t, which categorizeTask maps to mapping;
\* TypeError when categorizeTask has thrown.
CountMapped(acc, t, mapping) ==
  IF mapping = TypeError THEN TypeError
  ELSE IF mapping = NULL
          \/ <<mapping.category, mapping.deliverable>> \notin DOMAIN acc.progress
  THEN acc
  ELSE TheOne({CountDeclared(acc, mapping, taskData) :
                 taskData \in {TaskData(t)}})

\* The loop over the tasks from the k-th on.  acc holds progress, the set
\* agenticPatternsFound (in insertion order) and agenticPatternsTasks; the
\* value is TypeError when categorizeTask throws for a task.
RECURSIVE TaskLoop(_, _, _)
TaskLoop(tasksIn, k, acc) ==
  IF acc = TypeError \/ k > Len(tasksIn) THEN acc
  ELSE TheOne({TaskLoop(tasksIn, k + 1, next) :
                 next \in {TheOne({CountMapped(acc, tasksIn[k], mapping) :
                                     mapping \in {categorizeTask(tasksIn[k])}})}})

\* The end of calculateProgress: the aggregate slot, when the goals declare
\* it, gets the number of patterns, the content tasks and patternsFound.
PopulateAgenticSlot(done, goals) ==
  IF done = TypeError THEN TypeError
  ELSE IF AgenticSlot \in goals
  THEN [ kind |-> "progress",
         progress |->
           [done.progress EXCEPT
              ![AgenticSlot] = [completed |-> Len(done.found),
                                tasks |-> done.patternTasks]],
         patternsFound |-> Some(done.found) ]
  ELSE [ kind |-> "progress", progress |-> done.progress,
         patternsFound |-> None ]

\* calculateProgress(tasks, goals): the progress of every declared pair, and
\* patternsFound when the goals declare the aggregate slot; TypeError when
\* the classification of a task throws.
calculateProgress(tasksIn, goals) ==
  TheOne({PopulateAgenticSlot(done, goals) :
            done \in {TaskLoop(tasksIn, 1,
                                [kind |-> "progress",
                                 progress |-> EmptyProgress(goals),
                                 found |-> <<>>, patternTasks |-> <<>>])}})

(***************************************************************************)
(* The inputs of the classifier                                            *)
(***************************************************************************)
MaxTags == 2

\* The phrases task names are made of: a name is one phrase, or two phrases
\* separated by a space.
Phrases ==
  {"Schedule", "shorts", "tutorial", "Recorded", "goose", "merged PR", "promo",
   "blog", "Wrote", "newsletter", "draft", "report", "metrics", "expense",
   "published"}

TaskNames == Phrases \cup {a \o " " \o b : a \in Phrases, b \in Phrases}

Tag(gid, name) == [gid |-> gid, name |-> name]

SideProjectTag == Tag(Some(SideProjectGid), Some("side project"))
CfpTag == Tag(Some(CfpGid), Some("cfp"))
GooseContributionTag == Tag(Some(GooseContributionGid), Some("goose contribution"))
GooseTag == Tag(Some(GooseGid), Some("goose"))
TutorialTag == Tag(Some(TutorialGid), Some("tutorial"))
VideoTag == Tag(Some(VideoGid), Some("video"))
NewsletterTag == Tag(Some(NewsletterGid), Some("Newsletter"))
\* Tags that the identifier table does not know
OtherGooseTag == Tag(Some("1200000000000001"), Some("Goose"))
OtherSideProjectTag == Tag(Some("1200000000000002"), Some("Side Project"))
\* A tag without an identifier and a tag without a name
NoGidTutorialTag == Tag(None, Some("Tutorial"))
NamelessTag == Tag(Some("1200000000000003"), None)

TagUniverse ==
  { SideProjectTag, CfpTag, GooseContributionTag, GooseTag, TutorialTag, VideoTag,
    NewsletterTag, OtherGooseTag, OtherSideProjectTag, NoGidTutorialTag,
    NamelessTag }

RECURSIVE TagLists(_)
\* The lists of at most n different tags
TagLists(n) ==
  IF n = 0 THEN {<<>>}
  ELSE LET shorter == TagLists(n - 1)
           longest == {l \in shorter : Len(l) = n - 1}
       IN  shorter \cup
           {Append(p[1], p[2]) :
              p \in {q \in longest \X TagUniverse :
                       \A i \in DOMAIN q[1] : q[1][i] # q[2]}}

\* Task records as the source returns them: the name and the tags field may
\* be absent.
ClassifierTasks ==
  {[name |-> n, tags |-> tg] :
     n \in {None} \cup {Some(x) : x \in TaskNames},
     tg \in {None} \cup {Some(l) : l \in TagLists(MaxTags)}}

(***************************************************************************)
(* The inputs of the aggregation                                           *)
(***************************************************************************)
MaxTasks == 2

CommunityTag == Tag(Some(CommunityGid), Some("community"))

FullTask(gid, name, tags, assignee, followers) ==
  [gid |-> gid, name |-> name, tags |-> tags, completed_at |-> 1,
   assignee |-> assignee, followers |-> followers]

\* Two content tasks that mention agentic patterns, a content task that
\* mentions none, a contribution, a task of a pair no goals declare, a task
\* no rule matches and a task without a name.
VideoTask ==
  FullTask("t1", Some("Recorded skills tutorial video"), Some(<<VideoTag>>),
           Some("Ada"), <<"Ada", "Eva Sasson", "Bo">>)
BlogTask ==
  FullTask("t2", Some("Wrote blog post on MCP apps and skills"), None,
           None, <<>>)
ShortTask ==
  FullTask("t3", Some("[Shorts] quick tip"), Some(<<>>), Some("Bo"), <<"Ada">>)
ContributionTask ==
  FullTask("t4", Some("Merged goose PR for recipes"), Some(<<GooseTag>>),
           Some("Ada"), <<>>)
CommunityTask ==
  FullTask("t5", Some("Community sync"), Some(<<CommunityTag>>), None, <<>>)
UnmatchedTask ==
  FullTask("t6", Some("prep meeting notes"), Some(<<>>), Some("Bo"), <<>>)
NamelessTask ==
  FullTask("t7", None, Some(<<>>), None, <<>>)

ProgressTasks ==
  {VideoTask, BlogTask, ShortTask, ContributionTask, CommunityTask,
   UnmatchedTask, NamelessTask}

RECURSIVE ListsOf(_, _)
\* The lists of at most n elements of S
ListsOf(S, n) ==
  IF n = 0 THEN {<<>>}
  ELSE LET shorter == ListsOf(S, n - 1)
       IN  shorter \cup
           {Append(l, x) : l \in {m \in shorter : Len(m) = n - 1}, x \in S}

\* The pairs that QUARTERLY_GOALS['2026-Q1'] declares (each month of
\* MONTHLY_GOALS['2026-Q1'] declares the same pairs).
QUARTERLY_GOALS_Q1 ==
  { <<"Build", "Side projects">>, <<"Build", "goose contributions">>,
    <<"Build", "Agentic patterns owned">>,
    <<"Videos", "Tutorial videos">>, <<"Videos", "Shorts">>,
    <<"Blogs", "Blog posts">>,
    <<"Livestreams", "Vibe Code w/ goose streams">>,
    <<"Public Speaking", "CFPs (submitted or accepted)">>,
    <<"Public Speaking", "Talks delivered">>,
    <<"Public Speaking", "Podcast recordings">>,
    <<"Community", "Newsletter issues">>, <<"Community", "Spotlights">>,
    <<"Community", "Metrics reports">>,
    <<"Documentation", "Docs">> }

\* The goals of the configuration and every set of these four pairs
GoalSpecs ==
  {QUARTERLY_GOALS_Q1} \cup
  SUBSET { AgenticSlot, <<"Videos", "Tutorial videos">>, <<"Blogs", "Blog posts">>,
           <<"Build", "goose contributions">> }

\* Tasks of excluded assignees: a blog post that mentions a pattern, and a
\* task without a name.
ExcludedBlogTask ==
  FullTask("t8", Some("Wrote blog post on recipes"), None,
           Some("Eva Sasson"), <<"Ada">>)
ExcludedNamelessTask ==
  FullTask("t9", None, Some(<<>>), Some("Anthony Giuliano"), <<>>)

QuarterTasks ==
  {VideoTask, BlogTask, ContributionTask, NamelessTask, ExcludedBlogTask,
   ExcludedNamelessTask}

\* No two tasks of the list have the same gid.
DistinctGids(l) ==
  \A i \in DOMAIN l : \A j \in DOMAIN l : l[i].gid = l[j].gid => i = j

(***************************************************************************)
(* searchCompletedTasks                                                    *)
(*                                                                         *)
(* A date is a day number: new Date('YYYY-MM-DD') is midnight UTC of the   *)
(* day; the process runs in UTC, so setDate(getDate() + 7) is the same     *)
(* time seven days later and toISOString().split('T')[0] names that day.   *)
(***************************************************************************)
ChunkDays == 7

SingleQueryDays == 7

\* Math.ceil((end - start) / (1000 * 60 * 60 * 24)) of two midnights
daysDiff(start, end) == end - start

\* A completed task as the source holds it
SourceTask(gid, completedOn, assignee) ==
  [gid |-> gid, completed_on |-> completedOn, assignee |-> assignee]

\* The search endpoint's answer to completed_on.after / completed_on.before,
\* both exclusive, over the source's list of completed tasks.  Each answer
\* stays below the endpoint's cap of 100 tasks.
searchResponse(sourceTasks, after, before) ==
  [data |-> Some(SelectSeq(sourceTasks,
                           LAMBDA t : after < t.completed_on
                                      /\ t.completed_on < before))]

\* response.data || []
dataOrEmpty(response) ==
  IF IsSome(response.data) THEN Val(response.data) ELSE <<>>

\* The end of the chunk that starts at currentStart
chunkEnd(currentStart, end) ==
  LET currentEnd == currentStart + ChunkDays
  IN  IF currentEnd > end THEN end ELSE currentEnd

\* The loop over allTasks that keeps the first task of each gid
RECURSIVE uniqueTasksFrom(_, _, _, _)
uniqueTasksFrom(all, k, seenGids, unique) ==
  IF k > Len(all) THEN unique
  ELSE IF all[k].gid \in seenGids
       THEN uniqueTasksFrom(all, k + 1, seenGids, unique)
       ELSE uniqueTasksFrom(all, k + 1, seenGids \cup {all[k].gid},
                            Append(unique, all[k]))

\* Mutant: every task is kept.
uniqueTasksOf_KeepsAll(all) == all

uniqueTasksOf(all) == uniqueTasksFrom(all, 1, {}, <<>>)

\* Mutant: no task is filtered out.
filteredTasksOf_KeepsAll(unique) == unique

\* The filter that drops the tasks of excluded assignees
filteredTasksOf(unique) ==
  SelectSeq(unique,
            LAMBDA t : LET assigneeName == AssigneeName(t)
                       IN  IF IsNone(assigneeName) \/ assigneeName = Some("")
                           THEN TRUE
                           ELSE Val(assigneeName) \notin EXCLUDED_ASSIGNEES)

(***************************************************************************)
(* The cache                                                               *)
(*                                                                         *)
(* An instant is a whole number of seconds since 2026-03-31T23:53:00Z;     *)
(* Ms turns a difference of two instants into the milliseconds that        *)
(* Date.now() differences are in.                                          *)
(***************************************************************************)
Ms(seconds) == seconds * 1000

DaySeconds == 24 * 60 * 60

\* Seconds from the first instant to the end date of 2026-Q1
OpenSeconds == 420

CURRENT_QUARTER_TTL == 5 * 60 * 1000

\* endDate of each configured quarter, as an instant
QUARTER_CONFIG ==
  "2026-Q1" :> [endDate |-> OpenSeconds] @@
  "2026-Q2" :> [endDate |-> OpenSeconds + 91 * DaySeconds] @@
  "2026-Q3" :> [endDate |-> OpenSeconds + 183 * DaySeconds] @@
  "2026-Q4" :> [endDate |-> OpenSeconds + 275 * DaySeconds]

\* The quarters QUARTERLY_GOALS has goals for: Object.keys(QUARTERLY_GOALS).
\* The entry of 2026-Q2 is commented out.
QUARTERLY_GOALS_KEYS == {"2026-Q1"}

\* getAvailableQuarters(): one entry for each key of QUARTERLY_GOALS, here
\* by its id
getAvailableQuarters == QUARTERLY_GOALS_KEYS

isQuarterPast(quarterId, now) ==
  IF quarterId \notin DOMAIN QUARTER_CONFIG THEN FALSE
  ELSE QUARTER_CONFIG[quarterId].endDate < now

getCacheKey(quarterId) == quarterId

\* cache.quarters.get(key)
MapGet(map, key) == IF key \in DOMAIN map THEN Some(map[key]) ELSE None

\* cache.quarters.delete(key)
MapDelete(map, key) == [k \in DOMAIN map \ {key} |-> map[k]]

\* cache.quarters.set(key, value)
MapSet(map, key, value) ==
  [k \in DOMAIN map \cup {key} |-> IF k = key THEN value ELSE map[k]]

isCacheValid_TtlOnly(cacheEntry, quarterId, now) ==
  IF IsNone(cacheEntry) THEN FALSE
  ELSE Ms(now - Val(cacheEntry).timestamp) < CURRENT_QUARTER_TTL

isCacheValid_AgeInclusive(cacheEntry, quarterId, now) ==
  IF IsNone(cacheEntry) THEN FALSE
  ELSE IF isQuarterPast(quarterId, now) /\ Val(cacheEntry).isPast THEN TRUE
  ELSE Ms(now - Val(cacheEntry).timestamp) <= CURRENT_QUARTER_TTL

isCacheValid(cacheEntry, quarterId, now) ==
  IF IsNone(cacheEntry) THEN FALSE
  ELSE LET isPast == isQuarterPast(quarterId, now)
       IN  IF isPast /\ Val(cacheEntry).isPast THEN TRUE
           ELSE LET age == Ms(now - Val(cacheEntry).timestamp)
                IN  age < CURRENT_QUARTER_TTL

setCache(quarters, quarterId, data, now) ==
  LET isPast == isQuarterPast(quarterId, now)
  IN  MapSet(quarters, getCacheKey(quarterId),
             [data |-> data, timestamp |-> now, isPast |-> isPast])

\* What the call returns (a payload or null), the map it leaves, and whether
\* it removed an expired entry
getCache(quarters, quarterId, now) ==
  LET key == getCacheKey(quarterId)
      entry == MapGet(quarters, key)
  IN  IF isCacheValid(entry, quarterId, now)
      THEN [returned |-> Some(Val(entry).data), quarters |-> quarters,
            expired |-> FALSE]
      ELSE IF IsSome(entry)
           THEN [returned |-> None, quarters |-> MapDelete(quarters, key),
                 expired |-> TRUE]
           ELSE [returned |-> None, quarters |-> quarters, expired |-> FALSE]

\* The data object fetchQuarterData builds: id numbers the fetch that built
\* it, complete tells whether every source answer it was built from had data.
Payload(id, quarterId, complete) ==
  [id |-> id, quarterId |-> quarterId, complete |-> complete,
   cached |-> FALSE, cacheAge |-> None]


(***************************************************************************)
(* rateLimitedFetch                                                        *)
(***************************************************************************)
RATE_LIMIT_WINDOW == 60 * 1000

MAX_REQUESTS_PER_WINDOW == 50

\* The seconds to wait after a 429 without a Retry-After header
DefaultRetryAfter == 60

\* The call up to its first suspension: the window reset, then either the
\* wait for the rest of the window or the count and the request to the source.
rateLimitedFetchEnter(now, count, windowStart) ==
  LET reset == Ms(now - windowStart) > RATE_LIMIT_WINDOW
      count1 == IF reset THEN 0 ELSE count
      start1 == IF reset THEN now ELSE windowStart
  IN  IF count1 >= MAX_REQUESTS_PER_WINDOW
      THEN LET waitTime == RATE_LIMIT_WINDOW - Ms(now - start1)
           IN  [pc |-> "windowWait", wake |-> now + waitTime \div 1000,
                requestCount |-> count1, requestWindowStart |-> start1]
      ELSE [pc |-> "fetching", wake |-> 0,
            requestCount |-> count1 + 1, requestWindowStart |-> start1]

\* The requests sent from the start of the window on, after one more is
\* sent: a request sent before the instant at which the window now starts is
\* no longer in it.  (A request is sent only after requestWindowStart has
\* become, or been found to be, the current instant's window start, so none
\* was sent at the new start before the window moved there.)
sentFrom(windowStart, previousStart, sent) ==
  IF windowStart = previousStart THEN sent + 1 ELSE 1

\* What the source can answer to one request: a body with data, a 429 with
\* or without Retry-After, an error status with a JSON body that has no
\* data, an error status with a body that is not JSON, or no answer at all
\* (fetch rejects).
HttpResponse(status, retryAfter, body) ==
  [kind |-> "response", status |-> status, retryAfter |-> retryAfter,
   body |-> body]

SourceResponses ==
  { HttpResponse(200, None, "data"),
    HttpResponse(429, None, "errors"),
    HttpResponse(429, Some(120), "errors"),
    HttpResponse(500, None, "errors"),
    HttpResponse(502, None, "html"),
    [kind |-> "failure", status |-> 0, retryAfter |-> None, body |-> "none"] }

\* Mutant: the pause is the default whatever the header says.
retryAfterOf_IgnoresHeader(response) == DefaultRetryAfter

\* response.headers.get('Retry-After') || 60
retryAfterOf(response) ==
  IF IsSome(response.retryAfter) THEN Val(response.retryAfter)
  ELSE DefaultRetryAfter

(***************************************************************************)
(* The handlers of /api/progress/:quarterId and /api/refresh/:quarterId    *)
(***************************************************************************)
\* A request that is being served: pc is "idle" when the slot serves none,
\* "fetching" while a request to the source is out, "retryWait" during the
\* pause after a 429 and "windowWait" during the wait for the next window.
\* left counts the requests to the source still to make, complete tells
\* whether every answer consumed so far had data.
IdleHandler ==
  [pc |-> "idle", op |-> "none", quarterId |-> "", left |-> 0, fetchId |-> 0,
   complete |-> TRUE, wake |-> 0]

\* res.status(status).json(...) of the request a handler serves
Reply(handler, status, error, data) ==
  [op |-> handler.op, quarterId |-> handler.quarterId,
   fetchId |-> handler.fetchId, status |-> status, error |-> error,
   data |-> data, available |-> None]

NoReply == Reply(IdleHandler, 0, None, None)

\* cache.quarters.delete(getCacheKey(quarterId)) of the refresh handler
invalidate_KeepsPast(quarters, quarterId) ==
  IF quarterId \in DOMAIN quarters /\ quarters[quarterId].isPast THEN quarters
  ELSE MapDelete(quarters, getCacheKey(quarterId))

invalidate(quarters, quarterId) == MapDelete(quarters, getCacheKey(quarterId))

\* data.cached = true; data.cacheAge = Date.now() - cacheEntry.timestamp,
\* on the object that the cache entry also holds
markCached(quarters, quarterId, data, now) ==
  LET cacheEntry == MapGet(quarters, getCacheKey(quarterId))
  IN  IF IsSome(cacheEntry)
      THEN [data EXCEPT !.cached = TRUE,
                        !.cacheAge = Some(Ms(now - Val(cacheEntry).timestamp))]
      ELSE data

\* The map after the handler has marked data, which is the entry's own object
\* when the entry holds the payload of the same fetch
withMarked(quarters, quarterId, marked) ==
  IF quarterId \in DOMAIN quarters /\ quarters[quarterId].data.id = marked.id
  THEN [quarters EXCEPT ![quarterId].data = marked]
  ELSE quarters


(***************************************************************************)
(* Inputs of searchCompletedTasks                                          *)
(***************************************************************************)
MaxDay == 16

StartDays == 0 .. 1

SourceAssignees == {None, Some("Eva Sasson"), Some("Ada Lovelace")}

\* The source holds no task, one task, or two; the first has any assignee.
SourceLists ==
  {<<>>} \cup
  {<<SourceTask("1", d, a)>> : d \in 0 .. MaxDay, a \in SourceAssignees} \cup
  {<<SourceTask("1", d[1], a), SourceTask("2", d[2], Some("Ada Lovelace"))>> :
     d \in (0 .. MaxDay) \X (0 .. MaxDay), a \in SourceAssignees}

(***************************************************************************)
(* Inputs of the cache and of the handlers                                 *)
(***************************************************************************)
\* Time passes in steps of half the TTL, MaxTicks times at most.
TickSeconds == CURRENT_QUARTER_TTL \div 2000

MaxTicks == 6

\* The quarter with goals, a quarter of QUARTER_CONFIG without goals, and an
\* identifier no table knows
RequestQuarters == {"2026-Q1", "2026-Q2", "2027-Q1"}

\* The quarters the cache functions are called for directly
CacheQuarters == {"2026-Q1", "2026-Q2"}

\* The payloads handed to setCache directly
CachePayloads == {Payload(1, "", TRUE), Payload(2, "", TRUE)}

\* The requests one fetchQuarterData sends to the source, one after another
SourceRequests == 2

\* The requests the searchCompletedTasks of one uncategorized request sends
UncategorizedRequests == 1

\* The requests that arrive in one run
MaxRequests == 2

\* The requests served at the same time are at most two.
Handlers == {1, 2}

EmptyMap == [k \in {} |-> None]

(***************************************************************************)
(* State                                                                   *)
(***************************************************************************)
VARIABLES
  task,     \* the task record handed to categorizeTask
  result,   \* what the call returned or raised; "pending" before the call
  calls,    \* the calls of categorizeTask so far, each with what it returned
  tasks,    \* the task list handed to calculateProgress
  goals,    \* the goals handed to calculateProgress
  progress, \* what calculateProgress returned or raised; "pending" before
  source,        \* the completed tasks the source holds
  startDate,     \* the boundaries handed to searchCompletedTasks
  endDate,
  searchPc,      \* "call", "chunk", "single", "unique", "filter" or "done"
  currentStart,  \* the start of the chunk being fetched
  allTasks,
  uniqueTasks,
  filteredTasks, \* what searchCompletedTasks returned
  clock,         \* the current instant
  cache,         \* cache.quarters
  lastCall,      \* the last direct call of a cache function and its result
  tokenSet,      \* whether ASANA_TOKEN is configured
  requestCount,
  requestWindowStart,
  sentInWindow,  \* the requests sent to the source from requestWindowStart on
  handlers,      \* the requests being served
  lastReply,     \* the last answer a handler has sent
  fetchCount,    \* the fetches fetchQuarterData has started
  arrivals,      \* the requests that have arrived
  invalidated    \* the entries the refresh handler has found and deleted

classifyVars == <<task, result, calls>>
progressVars == <<tasks, goals, progress>>
searchVars == <<source, startDate, endDate, searchPc, currentStart, allTasks,
                uniqueTasks, filteredTasks>>
cacheVars == <<cache, lastCall>>
serverVars == <<tokenSet, requestCount, requestWindowStart, sentInWindow, handlers,
                lastReply, fetchCount, arrivals, invalidated>>

vars == <<classifyVars, progressVars, searchVars, clock, cacheVars, serverVars>>

Pending == [kind |-> "pending"]

NoCall == [op |-> "none", quarterId |-> "", at |-> 0, returned |-> None,
           expired |-> FALSE]

\* The variables a specification does not use keep these values.
IdleClassify ==
  task = [name |-> None, tags |-> None] /\ result = Pending /\ calls = <<>>
IdleProgress == tasks = <<>> /\ goals = {} /\ progress = Pending
IdleSearch ==
  /\ source = <<>> /\ startDate = 0 /\ endDate = 0 /\ searchPc = "idle"
  /\ currentStart = 0 /\ allTasks = <<>> /\ uniqueTasks = <<>>
  /\ filteredTasks = <<>>
IdleCache == clock = 0 /\ cache = EmptyMap /\ lastCall = NoCall
IdleServer ==
  /\ tokenSet = FALSE /\ requestCount = 0 /\ requestWindowStart = 0
  /\ sentInWindow = 0
  /\ handlers = [h \in Handlers |-> IdleHandler] /\ lastReply = NoReply
  /\ fetchCount = 0 /\ arrivals = 0 /\ invalidated = {}

(***************************************************************************)
(* SpecClassify: categorizeTask applied to one task record                 *)
(***************************************************************************)
ClassifyInit ==
  /\ task \in ClassifierTasks
  /\ result = Pending
  /\ calls = <<>>
  /\ IdleProgress /\ IdleSearch /\ IdleCache /\ IdleServer

Classify ==
  /\ result = Pending
  /\ result' = categorizeTask(task)
  /\ UNCHANGED <<task, calls, progressVars, searchVars, clock, cacheVars, serverVars>>

ClassifyNext == Classify

SpecClassify == ClassifyInit /\ [][ClassifyNext]_vars

(***************************************************************************)
(* SpecProgress: calculateProgress applied to one task list and goals      *)
(***************************************************************************)
ProgressInit ==
  /\ tasks \in ListsOf(ProgressTasks, MaxTasks)
  /\ goals \in GoalSpecs
  /\ progress = Pending
  /\ IdleClassify /\ IdleSearch /\ IdleCache /\ IdleServer

Aggregate ==
  /\ progress = Pending
  /\ progress' = calculateProgress(tasks, goals)
  /\ UNCHANGED <<tasks, goals, classifyVars, searchVars, clock, cacheVars,
                 serverVars>>

ProgressNext == Aggregate

SpecProgress == ProgressInit /\ [][ProgressNext]_vars

(***************************************************************************)
(* SpecSearch: searchCompletedTasks over one date range and one source     *)
(***************************************************************************)
SearchInit ==
  /\ source \in SourceLists
  /\ startDate \in StartDays
  /\ endDate \in 1 .. MaxDay
  /\ startDate < endDate
  /\ searchPc = "call"
  /\ currentStart = 0 /\ allTasks = <<>> /\ uniqueTasks = <<>>
  /\ filteredTasks = <<>>
  /\ IdleClassify /\ IdleProgress /\ IdleCache /\ IdleServer

\* The end of the function, from the loop that removes duplicates on
SearchReturns(all) ==
  /\ allTasks' = all
  /\ uniqueTasks' = uniqueTasksOf(all)
  /\ filteredTasks' = filteredTasksOf(uniqueTasksOf(all))
  /\ searchPc' = "done"

\* The call, up to the first request to the source
SearchCall ==
  /\ searchPc = "call"
  /\ IF daysDiff(startDate, endDate) > SingleQueryDays
     THEN searchPc' = "chunk" /\ currentStart' = startDate
     ELSE searchPc' = "single" /\ UNCHANGED currentStart
  /\ UNCHANGED <<source, startDate, endDate, allTasks, uniqueTasks,
                 filteredTasks>>
  /\ UNCHANGED <<classifyVars, progressVars, clock, cacheVars, serverVars>>

\* The source answers the request for one chunk; the loop goes on to the
\* next chunk or the function returns.
ChunkResponse ==
  /\ searchPc = "chunk"
  /\ LET currentEnd == chunkEnd(currentStart, endDate)
         response == searchResponse(source, currentStart, currentEnd)
         all == allTasks \o dataOrEmpty(response)
     IN  /\ currentStart' = currentEnd
         /\ IF currentEnd < endDate
            THEN /\ allTasks' = all
                 /\ UNCHANGED <<searchPc, uniqueTasks, filteredTasks>>
            ELSE SearchReturns(all)
  /\ UNCHANGED <<source, startDate, endDate>>
  /\ UNCHANGED <<classifyVars, progressVars, clock, cacheVars, serverVars>>

\* The source answers the single request of a short range.
SingleResponse ==
  /\ searchPc = "single"
  /\ SearchReturns(dataOrEmpty(searchResponse(source, startDate, endDate)))
  /\ UNCHANGED <<source, startDate, endDate, currentStart>>
  /\ UNCHANGED <<classifyVars, progressVars, clock, cacheVars, serverVars>>

SearchNext == SearchCall \/ ChunkResponse \/ SingleResponse

SpecSearch == SearchInit /\ [][SearchNext]_vars




(***************************************************************************)
(* Claims about categorizeTask (SpecClassify)                              *)
(***************************************************************************)
Returned == result # Pending
NameOf(t) == Val(t.name)

\* The positive keyword of a deliverable that has an exclusion set: the
\* keyword test of its rule in the keyword phase.
PositiveKeyword(deliverable, taskNameOriginal) ==
  LET taskName == toLowerCase(taskNameOriginal)
  IN  CASE deliverable = "Shorts" -> ShortsKeyword(taskName)
        [] deliverable = "Tutorial videos" -> TutorialKeyword(taskName)
        [] deliverable = "Blog posts" -> BlogKeyword(taskName)
        [] deliverable = "Newsletter issues" -> includes(taskName, "newsletter")
        [] deliverable = "Metrics reports" -> MetricsKeyword(taskName)
        [] deliverable = "goose contributions" -> includes(taskName, "goose")
        [] deliverable = "Docs" ->
             \/ WrittenTutorialKeyword(taskName)
             \/ GooseDocsKeyword(taskName, taskNameOriginal)
             \/ DocsKeyword(taskName)

\* The name matches one of the exclusion patterns that EXCLUSION_PATTERNS
\* lists for the deliverable.
MatchesExclusionPattern(taskName, deliverable) ==
  /\ deliverable \in DOMAIN EXCLUSION_PATTERNS
  /\ \E k \in DOMAIN EXCLUSION_PATTERNS[deliverable] :
        test(EXCLUSION_PATTERNS[deliverable][k], taskName)

\* The returned deliverable has an exclusion set, and the task name matches
\* its positive keyword and one of its exclusion patterns.
ReturnedExcludedDeliverable ==
  /\ result.kind = "mapping"
  /\ MatchesExclusionPattern(NameOf(task), result.deliverable)
  /\ PositiveKeyword(result.deliverable, NameOf(task))

HasTutorialGid(tags) ==
  \E k \in DOMAIN tags :
     GidIs(tags[k], VideoTutorialGid) \/ GidIs(tags[k], TutorialGid)

\* C1 as stated: whatever its tags, a task whose name matches a positive
\* keyword and an exclusion pattern of a deliverable is never classified into
\* that deliverable.
C1_ExclusionDominance == ~ReturnedExcludedDeliverable

\* C1 amended: the exclusion patterns of a deliverable keep a task whose name
\* matches them (and a positive keyword) out of that deliverable, except for
\* goose contributions when the task carries the explicit goose contribution
\* tag (by identifier or by name), and for Tutorial videos and Docs when the
\* task carries a tag with a tutorial identifier.
C1_ExclusionDominanceAmended ==
  ReturnedExcludedDeliverable =>
     \/ /\ result.deliverable = "goose contributions"
        /\ hasGooseContributionTag(TagsOf(task))
     \/ /\ result.deliverable \in {"Tutorial videos", "Docs"}
        /\ HasTutorialGid(TagsOf(task))

\* C1 witness: "Schedule shorts" under the video tag matches the keyword and
\* an exclusion pattern of Shorts, and is not classified into Shorts.
C1_Witness ==
  /\ task = [name |-> Some("Schedule shorts"), tags |-> Some(<<VideoTag>>)]
  /\ PositiveKeyword("Shorts", NameOf(task))
  /\ MatchesExclusionPattern(NameOf(task), "Shorts")
  /\ Returned
  /\ result = NULL

PriorityGids == {SideProjectGid, CfpGid, GooseContributionGid}

\* The priority identifiers among the tags of a task
PriorityGidsOf(tags) ==
  {g \in PriorityGids : \E k \in DOMAIN tags : GidIs(tags[k], g)}

\* The fixed pair and the lower-case display name of each priority identifier
PriorityPair ==
     SideProjectGid :> Mapping("Build", "Side projects")
  @@ CfpGid :> Mapping("Public Speaking", "CFPs (submitted or accepted)")
  @@ GooseContributionGid :> Mapping("Build", "goose contributions")

PriorityName ==
     SideProjectGid :> "side project"
  @@ CfpGid :> "cfp"
  @@ GooseContributionGid :> "goose contribution"

PriorityRank == SideProjectGid :> 1 @@ CfpGid :> 2 @@ GooseContributionGid :> 3

\* The priority tags a task matches by identifier or by display name
PriorityMatched(tags) ==
  {g \in PriorityGids :
     \E k \in DOMAIN tags : GidIs(tags[k], g) \/ NameIs(tags[k], PriorityName[g])}

OnlyGooseTagUnconfirmed ==
  /\ IsSome(task.name)
  /\ TagsOf(task) = <<GooseTag>>
  /\ ~hasConfirmation(NameOf(task), "goose contributions")

\* C4 as stated: a task whose only tag is the generic goose tag and whose
\* name matches no confirmation pattern of goose contributions is classified
\* to none.
C4_UnconfirmedGooseIsNone ==
  (Returned /\ OnlyGooseTagUnconfirmed) => result = NULL

\* C4 amended: such a task is never classified into Build / goose
\* contributions; it gets what the keyword phase gives its name alone, which
\* is none unless a keyword rule of another deliverable matches the name.
C4_UnconfirmedGooseIsKeywordPhase ==
  (Returned /\ OnlyGooseTagUnconfirmed) =>
     /\ result # Mapping("Build", "goose contributions")
     /\ result = Phase3(toLowerCase(NameOf(task)), NameOf(task))

\* C4 witness: "goose" under the generic goose tag alone is classified to none.
C4_Witness ==
  /\ task = [name |-> Some("goose"), tags |-> Some(<<GooseTag>>)]
  /\ OnlyGooseTagUnconfirmed
  /\ result = NULL

IdentifierDecision(t) ==
  LET tags == TagsOf(t)
      byGid == PriorityGidsOf(tags)
      first == CHOOSE g \in byGid : \A h \in byGid : PriorityRank[g] <= PriorityRank[h]
  IN  IF byGid # {} THEN Some(PriorityPair[first])
      ELSE Phase1(tags, 1, toLowerCase(NameOf(t)), NameOf(t))

\* The tag carries no identifier of TAG_CATEGORY_MAP.
UnrecognizedGid(tag) ==
  IsNone(tag.gid) \/ Val(tag.gid) \notin DOMAIN TAG_CATEGORY_MAP

\* A tag of the task can decide only through its display name: it carries
\* no identifier of TAG_CATEGORY_MAP, and TAG_NAME_MAP gives its lower-cased
\* name a pair that the task name does not veto.
NameOnlyDecides(t) ==
  \E k \in DOMAIN TagsOf(t) :
     LET tag == TagsOf(t)[k]
     IN  /\ UnrecognizedGid(tag)
         /\ IsSome(tag.name)
         /\ toLowerCase(Val(tag.name)) \in DOMAIN TAG_NAME_MAP
         /\ IsSome(Phase2Tag(tag, NameOf(t)))

GidOfTagName ==
     "side project" :> SideProjectGid
  @@ "goose" :> GooseGid
  @@ "goose contribution" :> GooseContributionGid
  @@ "video tutorial" :> VideoTutorialGid
  @@ "tutorial" :> TutorialGid
  @@ "video" :> VideoGid
  @@ "blog" :> BlogGid
  @@ "livestream" :> LivestreamGid
  @@ "cfp" :> CfpGid
  @@ "public speaking" :> PublicSpeakingGid
  @@ "podcast" :> PodcastGid
  @@ "workshop" :> WorkshopGid
  @@ "newsletter" :> NewsletterGid
  @@ "community" :> CommunityGid
  @@ "documentation" :> DocumentationGid
  @@ "guide" :> GuideGid
  @@ "internal devrel" :> InternalDevrelGid

\* The tag with the recognized identifier of its display name, when
\* TAG_NAME_MAP knows the name
WithIdentifier(tag) ==
  IF IsSome(tag.name) /\ toLowerCase(Val(tag.name)) \in DOMAIN GidOfTagName
  THEN [tag EXCEPT !.gid = Some(GidOfTagName[toLowerCase(Val(tag.name))])]
  ELSE tag

\* The task with each tag so replaced
WithIdentifiers(t) ==
  IF IsNone(t.tags) THEN t
  ELSE [t EXCEPT !.tags = Some([k \in DOMAIN Val(t.tags) |->
                                  WithIdentifier(Val(t.tags)[k])])]

\* The task is named, has a tag, and each of its tags is named and carries
\* no recognized identifier.
OnlyNameKeyedTags(t) ==
  /\ IsSome(t.name)
  /\ TagsOf(t) # <<>>
  /\ \A k \in DOMAIN TagsOf(t) :
        UnrecognizedGid(TagsOf(t)[k]) /\ IsSome(TagsOf(t)[k].name)

\* C12 as stated: a task none of whose tags carries a recognized identifier
\* is classified as the same task with each tag replaced by the
\* recognized-identifier tag of the same display name.
C12_NamePhaseEqualsIdentifierPhase ==
  (Returned /\ OnlyNameKeyedTags(task))
  => result = categorizeTask(WithIdentifiers(task))

\* The name (in lower case) has evidence of a video: video, filmed,
\* recorded, youtube, or published without doc and without blog.
VideoEvidence(taskName) ==
  \/ \E w \in {"video", "filmed", "recorded", "youtube"} : includes(taskName, w)
  \/ /\ includes(taskName, "published")
     /\ ~includes(taskName, "doc")
     /\ ~includes(taskName, "blog")

\* A task without tags whose name contains tutorial, has no short-form
\* indicator and matches no exclusion pattern of Tutorial videos or Docs.
UntaggedTutorial(t) ==
  /\ IsSome(t.name)
  /\ TagsOf(t) = <<>>
  /\ includes(toLowerCase(NameOf(t)), "tutorial")
  /\ ~ShortsKeyword(toLowerCase(NameOf(t)))
  /\ ~MatchesExclusionPattern(NameOf(t), "Tutorial videos")
  /\ ~MatchesExclusionPattern(NameOf(t), "Docs")

RECURSIVE SumCompleted(_, _)
\* The sum of the completed counts of the pairs of a set
SumCompleted(byPair, pairs) ==
  IF pairs = {} THEN 0
  ELSE LET pair == CHOOSE x \in pairs : TRUE
       IN  byPair[pair].completed + SumCompleted(byPair, pairs \ {pair})

\* The positions of the list whose task categorizeTask maps to a declared pair
DeclaredPositions ==
  {k \in DOMAIN tasks :
     LET mapping == categorizeTask(tasks[k])
     IN  /\ mapping.kind = "mapping"
         /\ <<mapping.category, mapping.deliverable>> \in goals}

InRange == {t \in Range(source) : startDate < t.completed_on
                                  /\ t.completed_on < endDate}

\* C5: for boundaries more than 7 days apart, the list searchCompletedTasks
\* has before the excluded-assignee filter holds exactly the tasks of the
\* source completed strictly after the start boundary and strictly before
\* the end boundary.
C5_ChunkedFetchComplete ==
  (searchPc = "done" /\ daysDiff(startDate, endDate) > 7)
    => Range(uniqueTasks) = InRange

(***************************************************************************)
(* SpecCache: setCache, getCache and the refresh handler's delete, called  *)
(* on the cache while time passes                                          *)
(***************************************************************************)
CacheInit ==
  /\ clock = 0
  /\ cache = EmptyMap
  /\ lastCall = NoCall
  /\ IdleClassify /\ IdleProgress /\ IdleSearch /\ IdleServer

Tick ==
  /\ clock < MaxTicks * TickSeconds
  /\ clock' = clock + TickSeconds
  /\ UNCHANGED <<classifyVars, progressVars, searchVars, cacheVars, serverVars>>

CallSetCache(quarterId, data) ==
  /\ cache' = setCache(cache, quarterId, data, clock)
  /\ lastCall' = [op |-> "setCache", quarterId |-> quarterId, at |-> clock,
                  returned |-> None, expired |-> FALSE]
  /\ UNCHANGED <<classifyVars, progressVars, searchVars, clock, serverVars>>

CallGetCache(quarterId) ==
  /\ LET got == getCache(cache, quarterId, clock)
     IN  /\ cache' = got.quarters
         /\ lastCall' = [op |-> "getCache", quarterId |-> quarterId,
                         at |-> clock, returned |-> got.returned,
                         expired |-> got.expired]
  /\ UNCHANGED <<classifyVars, progressVars, searchVars, clock, serverVars>>

CallInvalidate(quarterId) ==
  /\ cache' = invalidate(cache, quarterId)
  /\ lastCall' = [op |-> "invalidate", quarterId |-> quarterId, at |-> clock,
                  returned |-> None, expired |-> FALSE]
  /\ UNCHANGED <<classifyVars, progressVars, searchVars, clock, serverVars>>

CacheNext ==
  \/ Tick
  \/ \E quarterId \in CacheQuarters :
       \/ \E data \in CachePayloads : CallSetCache(quarterId, data)
       \/ CallGetCache(quarterId)
       \/ CallInvalidate(quarterId)

SpecCache == CacheInit /\ [][CacheNext]_vars

(***************************************************************************)
(* Claims about the cache (SpecCache)                                      *)
(***************************************************************************)
\* C7: a getCache for a period whose entry is marked isPast returns the
\* payload the entry was stored with and leaves the entry in place, however
\* long ago it was stored; only a delete or a new setCache ends this.
C7_PastPeriodPermanence ==
  [][\A quarterId \in CacheQuarters :
       (CallGetCache(quarterId) /\ quarterId \in DOMAIN cache
          /\ cache[quarterId].isPast)
         => /\ lastCall'.returned = Some(cache[quarterId].data)
            /\ cache' = cache]_vars

\* A getCache has returned the payload of an entry marked isPast that was
\* stored at least the TTL before the call.
C7_Witness ==
  /\ lastCall.op = "getCache"
  /\ lastCall.quarterId \in DOMAIN cache
  /\ cache[lastCall.quarterId].isPast
  /\ Ms(lastCall.at - cache[lastCall.quarterId].timestamp) >= CURRENT_QUARTER_TTL
  /\ lastCall.returned = Some(cache[lastCall.quarterId].data)

\* C8: a getCache for a period that is still open returns the stored payload
\* while the entry's age is below the TTL; from the age of the TTL on it
\* returns null and removes the entry.
C8_OpenPeriodExpiry ==
  [][\A quarterId \in CacheQuarters :
       (CallGetCache(quarterId) /\ quarterId \in DOMAIN cache
          /\ ~isQuarterPast(quarterId, clock))
         => IF Ms(clock - cache[quarterId].timestamp) < CURRENT_QUARTER_TTL
            THEN /\ lastCall'.returned = Some(cache[quarterId].data)
                 /\ cache' = cache
            ELSE /\ lastCall'.returned = None
                 /\ cache' = MapDelete(cache, quarterId)]_vars

\* A getCache for the open period has found an entry as old as the TTL and
\* removed it.
C8_Witness ==
  /\ lastCall.op = "getCache"
  /\ lastCall.expired
  /\ IsNone(lastCall.returned)
  /\ ~isQuarterPast(lastCall.quarterId, lastCall.at)
  /\ lastCall.quarterId \notin DOMAIN cache

(***************************************************************************)
(* SpecServer: progress and refresh requests arrive, suspend at their      *)
(* requests to the source and are answered, while time passes              *)
(***************************************************************************)
ServerInit ==
  /\ clock = 0
  /\ cache = EmptyMap
  /\ lastCall = NoCall
  /\ tokenSet \in BOOLEAN
  /\ requestCount \in {0, MAX_REQUESTS_PER_WINDOW - 1}
  /\ requestWindowStart = 0
  /\ sentInWindow = requestCount
  /\ handlers = [h \in Handlers |-> IdleHandler]
  /\ lastReply = NoReply
  /\ fetchCount = 0
  /\ arrivals = 0
  /\ invalidated = {}
  /\ IdleClassify /\ IdleProgress /\ IdleSearch

\* A handler calls rateLimitedFetch, which sends the request or waits for
\* the rest of the window.
CallsSource(h, handler) ==
  LET entered == rateLimitedFetchEnter(clock, requestCount, requestWindowStart)
  IN  /\ handlers' = [handlers EXCEPT ![h] = [handler EXCEPT
                        !.pc = entered.pc, !.wake = entered.wake]]
      /\ requestCount' = entered.requestCount
      /\ requestWindowStart' = entered.requestWindowStart
      /\ sentInWindow' =
            IF entered.pc = "fetching"
            THEN sentFrom(entered.requestWindowStart, requestWindowStart,
                          sentInWindow)
            ELSE sentInWindow
      /\ UNCHANGED lastReply

\* A handler answers; the rate limiter is not touched.
Answers(h, handler, status, error, data) ==
  /\ lastReply' = Reply(handler, status, error, data)
  /\ handlers' = [handlers EXCEPT ![h] = IdleHandler]
  /\ UNCHANGED <<requestCount, requestWindowStart, sentInWindow>>

\* A handler answers 404 with the list of getAvailableQuarters().
AnswersNotFound(h, handler, error) ==
  /\ lastReply' = [Reply(handler, 404, error, None) EXCEPT
                     !.available = Some(getAvailableQuarters)]
  /\ handlers' = [handlers EXCEPT ![h] = IdleHandler]
  /\ UNCHANGED <<requestCount, requestWindowStart, sentInWindow>>

\* A request arrives at the first handler that serves none.
Free(h) ==
  /\ handlers[h].pc = "idle"
  /\ \A other \in Handlers : other < h => handlers[other].pc # "idle"

\* fetchQuarterData from its start to its first request to the source or, on
\* a cache hit or an unknown quarter, to its end; quarters is cache.quarters
\* as the handler left it.
StartsFetch(h, arrived, quarters) ==
  LET quarterId == arrived.quarterId
      got == getCache(quarters, quarterId, clock)
  IN  IF IsSome(got.returned)
      THEN LET data == Val(got.returned)
               marked == IF arrived.op = "progress"
                         THEN markCached(got.quarters, quarterId, data, clock)
                         ELSE data
           IN  /\ cache' = withMarked(got.quarters, quarterId, marked)
               /\ Answers(h, arrived, 200, None, Some(marked))
               /\ UNCHANGED fetchCount
      ELSE IF quarterId \notin DOMAIN QUARTER_CONFIG
      THEN /\ cache' = got.quarters
           /\ Answers(h, arrived, 500,
                      Some("Cannot read properties of undefined"), None)
           /\ UNCHANGED fetchCount
      ELSE /\ cache' = got.quarters
           /\ fetchCount' = fetchCount + 1
           /\ CallsSource(h, [arrived EXCEPT !.left = SourceRequests,
                                             !.fetchId = fetchCount + 1])

\* Mutant: the handler does not look at the credential.
ProgressArrives_NoTokenCheck(h, quarterId) ==
  /\ Free(h)
  /\ arrivals < MaxRequests
  /\ arrivals' = arrivals + 1
  /\ LET arrived == [IdleHandler EXCEPT !.op = "progress",
                                        !.quarterId = quarterId]
     IN  IF quarterId \notin QUARTERLY_GOALS_KEYS
         THEN /\ AnswersNotFound(h, arrived,
                                 Some("Quarter not found in configuration"))
              /\ UNCHANGED <<cache, fetchCount>>
         ELSE StartsFetch(h, arrived, cache)
  /\ UNCHANGED <<tokenSet, invalidated, clock, lastCall>>
  /\ UNCHANGED <<classifyVars, progressVars, searchVars>>

\* GET /api/progress/:quarterId arrives.
ProgressArrives(h, quarterId) ==
  /\ Free(h)
  /\ arrivals < MaxRequests
  /\ arrivals' = arrivals + 1
  /\ LET arrived == [IdleHandler EXCEPT !.op = "progress",
                                        !.quarterId = quarterId]
     IN  IF ~tokenSet
         THEN /\ Answers(h, arrived, 500,
                         Some("ASANA_TOKEN not configured. Please add it to your .env file."),
                         None)
              /\ UNCHANGED <<cache, fetchCount>>
         ELSE IF quarterId \notin QUARTERLY_GOALS_KEYS
         THEN /\ AnswersNotFound(h, arrived,
                                 Some("Quarter not found in configuration"))
              /\ UNCHANGED <<cache, fetchCount>>
         ELSE IF quarterId \notin DOMAIN QUARTER_CONFIG
         THEN /\ Answers(h, arrived, 404, Some("Quarter config not found"),
                         None)
              /\ UNCHANGED <<cache, fetchCount>>
         ELSE StartsFetch(h, arrived, cache)
  /\ UNCHANGED <<tokenSet, invalidated, clock, lastCall>>
  /\ UNCHANGED <<classifyVars, progressVars, searchVars>>

\* POST /api/refresh/:quarterId arrives.
RefreshArrives(h, quarterId) ==
  /\ Free(h)
  /\ arrivals < MaxRequests
  /\ arrivals' = arrivals + 1
  /\ LET arrived == [IdleHandler EXCEPT !.op = "refresh",
                                        !.quarterId = quarterId]
     IN  IF ~tokenSet
         THEN /\ Answers(h, arrived, 500, Some("ASANA_TOKEN not configured"),
                         None)
              /\ UNCHANGED <<cache, fetchCount, invalidated>>
         ELSE /\ invalidated' =
                   IF quarterId \in DOMAIN cache
                   THEN invalidated \cup
                          {[id |-> cache[quarterId].data.id,
                            quarterId |-> quarterId,
                            isPast |-> cache[quarterId].isPast]}
                   ELSE invalidated
              /\ StartsFetch(h, arrived, invalidate(cache, quarterId))
  /\ UNCHANGED <<tokenSet, clock, lastCall>>
  /\ UNCHANGED <<classifyVars, progressVars, searchVars>>

\* GET /api/uncategorized/:quarterId arrives: searchCompletedTasks over the
\* dates of the quarter, without the cache.
UncategorizedArrives(h, quarterId) ==
  /\ Free(h)
  /\ arrivals < MaxRequests
  /\ arrivals' = arrivals + 1
  /\ LET arrived == [IdleHandler EXCEPT !.op = "uncategorized",
                                        !.quarterId = quarterId]
     IN  IF ~tokenSet
         THEN Answers(h, arrived, 500,
                      Some("ASANA_TOKEN environment variable not set"), None)
         ELSE IF quarterId \notin DOMAIN QUARTER_CONFIG
         THEN Answers(h, arrived, 404, Some("Quarter not found"), None)
         ELSE CallsSource(h, [arrived EXCEPT !.left = UncategorizedRequests])
  /\ UNCHANGED <<cache, fetchCount, tokenSet, invalidated, clock, lastCall>>
  /\ UNCHANGED <<classifyVars, progressVars, searchVars>>

\* The last answer of the source has been consumed.  The uncategorized
\* handler answers with the tasks that categorizeTask maps to nothing;
\* fetchQuarterData builds the payload and stores it, and its handler
\* answers.
FinishesFetch(h, handler) ==
  IF handler.op = "uncategorized"
  THEN /\ Answers(h, handler, 200, None, None)
       /\ UNCHANGED cache
  ELSE IF handler.quarterId \notin QUARTERLY_GOALS_KEYS
  THEN /\ Answers(h, handler, 500,
                  Some("Cannot read properties of undefined"), None)
       /\ UNCHANGED cache
  ELSE LET data == Payload(handler.fetchId, handler.quarterId, handler.complete)
           stored == setCache(cache, handler.quarterId, data, clock)
           marked == IF handler.op = "progress"
                     THEN markCached(stored, handler.quarterId, data, clock)
                     ELSE data
       IN  /\ cache' = withMarked(stored, handler.quarterId, marked)
           /\ Answers(h, handler, 200, None, Some(marked))

\* The source answers the request of a handler, or the request fails.
SourceResponds(h, response) ==
  /\ handlers[h].pc = "fetching"
  /\ LET handler == handlers[h]
     IN  IF response.kind = "failure"
         THEN /\ Answers(h, handler, 500, Some("fetch failed"), None)
              /\ UNCHANGED cache
         ELSE IF response.status = 429
         THEN /\ handlers' = [handlers EXCEPT ![h] = [handler EXCEPT
                    !.pc = "retryWait",
                    !.wake = clock + retryAfterOf(response)]]
              /\ UNCHANGED <<cache, requestCount, requestWindowStart,
                             sentInWindow, lastReply>>
         ELSE IF response.body = "html"
         THEN /\ Answers(h, handler, 500, Some("Unexpected token < in JSON"),
                         None)
              /\ UNCHANGED cache
         ELSE LET consumed == [handler EXCEPT
                    !.complete = handler.complete /\ response.body = "data",
                    !.left = handler.left - 1]
              IN  IF consumed.left > 0
                  THEN CallsSource(h, consumed) /\ UNCHANGED cache
                  ELSE FinishesFetch(h, consumed)
  /\ UNCHANGED <<tokenSet, fetchCount, arrivals, invalidated, clock, lastCall>>
  /\ UNCHANGED <<classifyVars, progressVars, searchVars>>

\* The pause after a 429 is over: rateLimitedFetch calls itself.
RetryTimerFires(h) ==
  /\ handlers[h].pc = "retryWait"
  /\ clock >= handlers[h].wake
  /\ CallsSource(h, handlers[h])
  /\ UNCHANGED <<tokenSet, fetchCount, arrivals, invalidated, clock, cacheVars>>
  /\ UNCHANGED <<classifyVars, progressVars, searchVars>>

\* The wait for the rest of the window is over: the window starts again and
\* the request is sent.
WindowTimerFires(h) ==
  /\ handlers[h].pc = "windowWait"
  /\ clock >= handlers[h].wake
  /\ handlers' = [handlers EXCEPT ![h].pc = "fetching", ![h].wake = 0]
  /\ requestCount' = 1
  /\ requestWindowStart' = clock
  /\ sentInWindow' = sentFrom(clock, requestWindowStart, sentInWindow)
  /\ UNCHANGED <<tokenSet, lastReply, fetchCount, arrivals, invalidated, clock,
                 cacheVars>>
  /\ UNCHANGED <<classifyVars, progressVars, searchVars>>

ServerNext ==
  \/ Tick
  \/ \E h \in Handlers :
       \/ \E quarterId \in RequestQuarters : ProgressArrives(h, quarterId)
       \/ \E quarterId \in RequestQuarters : RefreshArrives(h, quarterId)
       \/ \E quarterId \in RequestQuarters : UncategorizedArrives(h, quarterId)
       \/ \E response \in SourceResponses : SourceResponds(h, response)
       \/ RetryTimerFires(h)
       \/ WindowTimerFires(h)

SpecServer == ServerInit /\ [][ServerNext]_vars

(***************************************************************************)
(* Claims about the handlers (SpecServer)                                  *)
(***************************************************************************)
\* C6: when the source answers a request with a status that is neither 2xx
\* nor 429, no payload built from that answer is returned with status 200
\* and none is stored in the cache.
C6_SourceUnavailableSurfaced ==
  /\ ((lastReply.status = 200 /\ IsSome(lastReply.data))
        => Val(lastReply.data).complete)
  /\ \A quarterId \in DOMAIN cache : cache[quarterId].data.complete

\* A step in which a handler sends its answer
Replies ==
  \/ \E h \in Handlers : handlers[h].pc # "idle" /\ handlers'[h].pc = "idle"
  \/ arrivals' # arrivals /\ handlers' = handlers

InvalidatedIds(entries) == {e.id : e \in entries}

QuarterlyInit ==
  /\ uniqueTasks \in {l \in ListsOf(QuarterTasks, MaxTasks) : DistinctGids(l)}
  /\ goals \in GoalSpecs
  /\ tasks = <<>> /\ progress = Pending
  /\ source = <<>> /\ startDate = 0 /\ endDate = 0 /\ searchPc = "filter"
  /\ currentStart = 0 /\ allTasks = uniqueTasks /\ filteredTasks = <<>>
  /\ IdleClassify /\ IdleCache /\ IdleServer

\* quarterTasks = await searchCompletedTasks(...), from its filter on, and
\* quarterlyProgress = calculateProgress(quarterTasks, quarterlyGoals)
QuarterlyProgress ==
  /\ searchPc = "filter"
  /\ searchPc' = "done"
  /\ \E quarterTasks \in {filteredTasksOf(uniqueTasks)} :
        /\ filteredTasks' = quarterTasks
        /\ tasks' = quarterTasks
        /\ progress' = calculateProgress(quarterTasks, goals)
  /\ UNCHANGED <<source, startDate, endDate, currentStart, allTasks,
                 uniqueTasks, goals>>
  /\ UNCHANGED <<classifyVars, clock, cacheVars, serverVars>>

QuarterlyNext == QuarterlyProgress

SpecQuarterly == QuarterlyInit /\ [][QuarterlyNext]_vars

(***************************************************************************)
(* Claims about the excluded assignees (SpecQuarterly)                     *)
(***************************************************************************)
\* The task is assigned to a name of EXCLUDED_ASSIGNEES.
ExcludedAssignee(t) ==
  IsSome(t.assignee) /\ Val(t.assignee) \in EXCLUDED_ASSIGNEES

\* The tasks of other assignees, and of none, that categorizeTask maps to
\* the pair
CountedFor(pair) ==
  {k \in DOMAIN uniqueTasks :
     /\ ~ExcludedAssignee(uniqueTasks[k])
     /\ LET mapping == categorizeTask(uniqueTasks[k])
        IN  /\ mapping.kind = "mapping"
            /\ <<mapping.category, mapping.deliverable>> = pair}

\* The gids of the tasks listed under a pair
ListedGids(pair) ==
  {progress.progress[pair].tasks[j].gid :
     j \in DOMAIN progress.progress[pair].tasks}

\* C14: a task of an excluded assignee is not in the list that
\* searchCompletedTasks returns, is not classified (it cannot make the
\* aggregation throw), is listed under no deliverable and is counted in no
\* deliverable's completed count; a task without assignee is always in the
\* returned list.
C14_ExcludedAssigneesDropped ==
  progress # Pending =>
     /\ \A k \in DOMAIN uniqueTasks :
           /\ ExcludedAssignee(uniqueTasks[k])
                => uniqueTasks[k] \notin Range(filteredTasks)
           /\ IsNone(uniqueTasks[k].assignee)
                => uniqueTasks[k] \in Range(filteredTasks)
     /\ progress = TypeError =>
           \E k \in DOMAIN uniqueTasks :
              ~ExcludedAssignee(uniqueTasks[k]) /\ IsNone(uniqueTasks[k].name)
     /\ progress.kind = "progress" =>
           \A pair \in goals :
              /\ \A k \in DOMAIN uniqueTasks :
                    ExcludedAssignee(uniqueTasks[k])
                      => uniqueTasks[k].gid \notin ListedGids(pair)
              /\ pair # AgenticSlot =>
                    progress.progress[pair].completed
                      = Cardinality(CountedFor(pair))

\* C14 witness: a blog post of an excluded assignee and a blog post without
\* assignee; only the second is returned, counted and listed.
C14_Witness ==
  /\ uniqueTasks = <<ExcludedBlogTask, BlogTask>>
  /\ goals = QUARTERLY_GOALS_Q1
  /\ filteredTasks = <<BlogTask>>
  /\ progress.kind = "progress"
  /\ progress.progress[<<"Blogs", "Blog posts">>].completed = 1
  /\ ListedGids(<<"Blogs", "Blog posts">>) = {BlogTask.gid}

(***************************************************************************)
(* Claims about the aggregate slot (SpecProgress)                          *)
(***************************************************************************)
\* The positions of the list, in order, whose task categorizeTask maps to a
\* content deliverable among the pairs of declared and whose name mentions
\* a pattern
ContentPositions(declared) ==
  SelectSeq([k \in 1 .. Len(tasks) |-> k],
            LAMBDA k :
              LET mapping == categorizeTask(tasks[k])
              IN  /\ mapping.kind = "mapping"
                  /\ mapping.deliverable \in CONTENT_DELIVERABLES
                  /\ <<mapping.category, mapping.deliverable>> \in declared
                  /\ detectAgenticPatterns(Val(tasks[k].name)) # <<>>)

\* The slot counts the distinct patterns of the tasks at these positions and
\* lists these tasks, each with its patterns and the deliverable it was
\* classified into.
SlotHolds(positions) ==
  LET slot == progress.progress[AgenticSlot]
  IN  /\ slot.completed =
           Cardinality(UNION {Range(detectAgenticPatterns(Val(tasks[positions[j]].name))) :
                                j \in DOMAIN positions})
      /\ Len(slot.tasks) = Len(positions)
      /\ \A j \in DOMAIN positions :
            LET t == tasks[positions[j]]
            IN  /\ slot.tasks[j].gid = t.gid
                /\ slot.tasks[j].name = Val(t.name)
                /\ slot.tasks[j].agenticPatterns
                     = detectAgenticPatterns(Val(t.name))
                /\ slot.tasks[j].sourceDeliverable
                     = categorizeTask(t).deliverable

\* The pairs of the content deliverables
ContentPairs ==
  { <<"Videos", "Tutorial videos">>, <<"Videos", "Shorts">>,
    <<"Blogs", "Blog posts">>,
    <<"Livestreams", "Vibe Code w/ goose streams">> }

\* C15 as stated: when the goals declare Build / Agentic patterns owned,
\* the slot counts the distinct patterns of all tasks of the list that are
\* classified into a content deliverable, and lists those of them that
\* mention a pattern.
C15_AggregateSlot ==
  (progress.kind = "progress" /\ AgenticSlot \in goals)
  => SlotHolds(ContentPositions(ContentPairs))

\* What calculateProgress computes for the slot (C15 restricted to the
\* declared content deliverables): it counts and lists only the content
\* tasks whose content deliverable the goals declare as well; a task
\* classified into a content deliverable that the goals do not declare adds
\* no pattern.
C15_AggregateSlotOfDeclared ==
  (progress.kind = "progress" /\ AgenticSlot \in goals)
  => SlotHolds(ContentPositions(goals))

\* C15 witness: a tutorial video that mentions skills and a blog post that
\* mentions MCP apps and skills, under the configured goals: two patterns,
\* two tasks.
C15_Witness ==
  /\ tasks = <<VideoTask, BlogTask>>
  /\ goals = QUARTERLY_GOALS_Q1
  /\ progress.kind = "progress"
  /\ progress.progress[AgenticSlot].completed = 2
  /\ Len(progress.progress[AgenticSlot].tasks) = 2
  /\ progress.progress[AgenticSlot].tasks[1].sourceDeliverable = "Tutorial videos"
  /\ progress.progress[AgenticSlot].tasks[2].sourceDeliverable = "Blog posts"
  /\ progress.patternsFound = Some(<<"Skills", "MCP Apps">>)

(***************************************************************************)
(* Claims about rateLimitedFetch (SpecServer)                              *)
(***************************************************************************)
\* The 429 answers among the answers of the source
RateLimitedResponses ==
  {response \in SourceResponses :
     response.kind = "response" /\ response.status = 429}

\* The seconds a 429 answer asks to wait: its Retry-After header, or 60
PauseOf(response) ==
  IF response.retryAfter = None THEN 60 ELSE response.retryAfter[1]

\* C16: when the source answers 429, the call neither returns nor fails: the
\* handler sends no answer, stores nothing and keeps the request it was
\* making; it pauses until the Retry-After seconds (60 without the header)
\* have passed, and the pause ends only by the same request being made
\* again through rateLimitedFetch (sent at once, or held back for the rest
\* of the window); an answer that is not a 429 and has a JSON body is
\* consumed at once as the result of the call.
C16_RateLimitedRetry ==
  [][\A h \in Handlers :
       /\ \A response \in RateLimitedResponses :
             SourceResponds(h, response)
               => /\ handlers'[h] =
                       [handlers[h] EXCEPT !.pc = "retryWait",
                                           !.wake = clock + PauseOf(response)]
                  /\ lastReply' = lastReply
                  /\ cache' = cache
       /\ (handlers[h].pc = "retryWait" /\ handlers'[h] # handlers[h])
             => /\ clock >= handlers[h].wake
                /\ handlers'[h].pc \in {"fetching", "windowWait"}
                /\ [handlers'[h] EXCEPT !.pc = "retryWait",
                                        !.wake = handlers[h].wake]
                     = handlers[h]
                /\ lastReply' = lastReply
       /\ (handlers[h].pc = "retryWait" /\ clock' = clock)
             => (handlers'[h] = handlers[h] \/ clock >= handlers[h].wake)
       /\ SourceResponds(h, HttpResponse(200, None, "data"))
             => \/ handlers'[h].left = handlers[h].left - 1
                \/ handlers'[h].pc = "idle"]_vars

\* C16 witness: a handler pauses for the 120 seconds of a Retry-After
\* header, with a request of its fetch still to be answered and no answer
\* sent for it.
C16_Witness ==
  \E h \in Handlers :
     /\ handlers[h].pc = "retryWait"
     /\ handlers[h].wake = clock + 120
     /\ handlers[h].left > 0
     /\ lastReply.fetchId # handlers[h].fetchId


(***************************************************************************)
(* SpecLimiter: two fetches run concurrently through rateLimitedFetch      *)
(* while the window is almost used up                                      *)
(***************************************************************************)
\* The answers each of the two fetches still waits for (a quarter with
\* three months sends about thirty requests)
LimiterCalls == 27

\* The source answers with data or with a 429
LimiterResponses == {HttpResponse(200, None, "data")} \cup RateLimitedResponses

\* The server has run for a while.  Two fetches of the first quarter each
\* have a request at the source; the window started at this instant and the
\* counter stands one below the limit, all of it sent in this window.
LimiterInit ==
  /\ clock = (MaxTicks - 1) * TickSeconds
  /\ cache = EmptyMap
  /\ lastCall = NoCall
  /\ tokenSet = TRUE
  /\ requestCount = MAX_REQUESTS_PER_WINDOW - 1
  /\ requestWindowStart = clock
  /\ sentInWindow = requestCount
  /\ handlers = [h \in Handlers |->
                   [IdleHandler EXCEPT !.pc = "fetching", !.op = "progress",
                                       !.quarterId = "2026-Q1",
                                       !.left = LimiterCalls, !.fetchId = h]]
  /\ lastReply = NoReply
  /\ fetchCount = Cardinality(Handlers)
  /\ arrivals = Cardinality(Handlers)
  /\ invalidated = {}
  /\ IdleClassify /\ IdleProgress /\ IdleSearch

LimiterNext ==
  \/ Tick
  \/ \E h \in Handlers :
       \/ \E response \in LimiterResponses : SourceResponds(h, response)
       \/ RetryTimerFires(h)
       \/ WindowTimerFires(h)

SpecLimiter == LimiterInit /\ [][LimiterNext]_vars

(***************************************************************************)
(* Claims about the request-rate budget (SpecLimiter)                      *)
(***************************************************************************)
\* C17: under every interleaving of concurrent calls of rateLimitedFetch,
\* retries after a 429 included, at most MAX_REQUESTS_PER_WINDOW requests
\* are sent to the source within one RATE_LIMIT_WINDOW counted from
\* requestWindowStart.
C17_RequestBudget == sentInWindow <= MAX_REQUESTS_PER_WINDOW

\* Two calls wait for the rest of the same window.
C17_Witness ==
  /\ \A h \in Handlers : handlers[h].pc = "windowWait"
  /\ requestCount = MAX_REQUESTS_PER_WINDOW


(***************************************************************************)
(* Claims about requests for an unknown period (SpecServer)                *)
(***************************************************************************)
\* The operations that take a period identifier
PeriodOperations == {"progress", "refresh", "uncategorized"}

\* C18: every operation that takes a period identifier (progress, forced
\* refresh, uncategorized diagnostic), called with the credential set and
\* an identifier that has no configured goals, answers not-found together
\* with the list of the known period identifiers, and not a generic failure.
C18_UnknownPeriodNotFound ==
  (/\ tokenSet
   /\ lastReply.op \in PeriodOperations
   /\ lastReply.quarterId \notin QUARTERLY_GOALS_KEYS)
    => /\ lastReply.status = 404
       /\ lastReply.available = Some(QUARTERLY_GOALS_KEYS)

\* A progress request for a period without goals has been answered with
\* not-found and the list.
C18_Witness ==
  /\ tokenSet
  /\ lastReply.op = "progress"
  /\ lastReply.quarterId = "2027-Q1"
  /\ lastReply.status = 404
  /\ lastReply.available = Some({"2026-Q1"})


(***************************************************************************)
(* SpecUnique: searchCompletedTasks from the end of its requests on, over  *)
(* the concatenated answers of the source, whatever they repeat            *)
(***************************************************************************)
\* The tasks the answers of the source hold together, at most
MaxFetched == 3

\* The records of the answers: a task that two answers hold may have
\* changed its assignee or its day of completion between them.
FetchedTasks ==
  {SourceTask(gid, d, a) : gid \in {"1", "2"}, d \in {ChunkDays, ChunkDays + 1},
                           a \in SourceAssignees}

UniqueInit ==
  /\ allTasks \in ListsOf(FetchedTasks, MaxFetched)
  /\ source = <<>> /\ startDate = 0 /\ endDate = 2 * ChunkDays
  /\ currentStart = endDate
  /\ searchPc = "unique"
  /\ uniqueTasks = <<>> /\ filteredTasks = <<>>
  /\ IdleClassify /\ IdleProgress /\ IdleCache /\ IdleServer

\* The loop that removes the duplicates, the filter and the return
RemovesDuplicates ==
  /\ searchPc = "unique"
  /\ SearchReturns(allTasks)
  /\ UNCHANGED <<source, startDate, endDate, currentStart>>
  /\ UNCHANGED <<classifyVars, progressVars, clock, cacheVars, serverVars>>

UniqueNext == RemovesDuplicates

SpecUnique == UniqueInit /\ [][UniqueNext]_vars

(***************************************************************************)
(* Claims about the removal of duplicates (SpecUnique)                     *)
(***************************************************************************)
\* No earlier task of the list has the gid of the k-th
FirstOccurrence(all, k) == \A j \in 1 .. k - 1 : all[j].gid # all[k].gid

\* C19: the list searchCompletedTasks returns never holds two tasks with
\* the same gid, whatever the answers of the sub-range requests repeat, and
\* each task it holds is the first of its gid in the order of the answers.
C19_Deduplication ==
  searchPc = "done" =>
    /\ \A i, j \in 1 .. Len(filteredTasks) :
         i # j => filteredTasks[i].gid # filteredTasks[j].gid
    /\ \A i \in 1 .. Len(filteredTasks) :
         \E k \in 1 .. Len(allTasks) :
           /\ allTasks[k] = filteredTasks[i]
           /\ FirstOccurrence(allTasks, k)

\* Two answers held task 1, with another assignee in the second; the list
\* returned holds the first record of task 1, and task 2.
C19_Witness ==
  /\ searchPc = "done"
  /\ allTasks = <<SourceTask("1", ChunkDays, None),
                  SourceTask("2", ChunkDays + 1, None),
                  SourceTask("1", ChunkDays, Some("Ada Lovelace"))>>
  /\ filteredTasks = <<SourceTask("1", ChunkDays, None),
                       SourceTask("2", ChunkDays + 1, None)>>


(***************************************************************************)
(* Claims about the order of the tasks (SpecProgress)                      *)
(***************************************************************************)
\* The lists that hold the tasks of a list in another order, or the same
PermutationsOf(l) ==
  {[k \in 1 .. Len(l) |-> l[f[k]]] : f \in Permutations(1 .. Len(l))}

\* Two results of calculateProgress have the same distinct patterns and the
\* same 'Agentic patterns owned' count, or are both the TypeError.
SamePatterns(one, other) ==
  IF one = TypeError \/ other = TypeError THEN one = other
  ELSE /\ Range(Val(one.patternsFound)) = Range(Val(other.patternsFound))
       /\ one.progress[AgenticSlot].completed
            = other.progress[AgenticSlot].completed

\* C20: for every task list and every permutation of it, calculateProgress
\* yields the same set of distinct agentic patterns and the same 'Agentic
\* patterns owned' count; and computing it again over the same list yields
\* the same set again.
C20_PatternUnionOrderIndependent ==
  (progress # Pending /\ AgenticSlot \in goals) =>
    /\ \A permuted \in PermutationsOf(tasks) :
         SamePatterns(progress, calculateProgress(permuted, goals))
    /\ SamePatterns(progress, calculateProgress(tasks, goals))

\* A video that mentions Skills and a blog post that mentions MCP Apps and
\* Skills: the patterns are found in another order when the blog post comes
\* first, and they are the same two.
C20_Witness ==
  /\ tasks = <<VideoTask, BlogTask>>
  /\ goals = QUARTERLY_GOALS_Q1
  /\ progress # Pending /\ progress # TypeError
  /\ progress.patternsFound = Some(<<"Skills", "MCP Apps">>)
  /\ calculateProgress(<<BlogTask, VideoTask>>, goals).patternsFound
       = Some(<<"MCP Apps", "Skills">>)
  /\ progress.progress[AgenticSlot].completed = 2


(***************************************************************************)
(* Claims about a missing credential (SpecServer)                          *)
(***************************************************************************)
\* The messages that name the missing credential
CredentialMessages ==
  { "ASANA_TOKEN not configured. Please add it to your .env file.",
    "ASANA_TOKEN not configured",
    "ASANA_TOKEN environment variable not set" }

\* C21: when the source credential is not configured, a progress, a
\* forced-refresh or an uncategorized request is answered at once with an
\* error whose message names the credential; no request is sent to the
\* source, no fetch is started and the cache is left as it was.
C21_MissingCredential ==
  [][(~tokenSet /\ arrivals' # arrivals)
       => /\ lastReply'.op \in PeriodOperations
          /\ lastReply'.status = 500
          /\ IsSome(lastReply'.error)
          /\ Val(lastReply'.error) \in CredentialMessages
          /\ IsNone(lastReply'.data)
          /\ cache' = cache
          /\ requestCount' = requestCount
          /\ sentInWindow' = sentInWindow
          /\ fetchCount' = fetchCount
          /\ \A h \in Handlers : handlers'[h].pc = "idle"]_vars

\* Without the credential, a forced refresh has been refused after another
\* request.
C21_Witness ==
  /\ ~tokenSet
  /\ arrivals = 2
  /\ lastReply.op = "refresh"
  /\ lastReply.quarterId = "2026-Q1"
  /\ lastReply.status = 500
  /\ lastReply.error = Some("ASANA_TOKEN not configured")
  /\ cache = EmptyMap


(***************************************************************************)
(* SpecPure: categorizeTask called again and again while the clock, the    *)
(* cache and the counters of the rate limiter hold whatever they hold      *)
(***************************************************************************)
\* The calls of one run
MaxCalls == 3

\* Task records to classify: two that differ in gid, assignee and followers
\* but not in name and tags, and four others.
PureTasks ==
  { VideoTask,
    [VideoTask EXCEPT !.gid = "t10", !.assignee = Some("Bo"),
                      !.followers = <<>>],
    BlogTask, ContributionTask, UnmatchedTask, NamelessTask }

PureInit ==
  /\ task = [name |-> None, tags |-> None] /\ result = Pending
  /\ calls = <<>>
  /\ clock = 0 /\ cache = EmptyMap /\ lastCall = NoCall
  /\ tokenSet = TRUE
  /\ requestCount \in {0, MAX_REQUESTS_PER_WINDOW - 1}
  /\ requestWindowStart = 0
  /\ sentInWindow = requestCount
  /\ handlers = [h \in Handlers |-> IdleHandler] /\ lastReply = NoReply
  /\ fetchCount = 0 /\ arrivals = 0 /\ invalidated = {}
  /\ IdleProgress /\ IdleSearch

\* Mutant: a pattern with the g flag keeps its lastIndex, so a call that
\* follows a call with the same match finds none.
CallsCategorize_KeepsLastIndex(t) ==
  /\ Len(calls) < MaxCalls
  /\ task' = t
  /\ result' = IF /\ Len(calls) > 0
                  /\ calls[Len(calls)].result = categorizeTask(t)
               THEN NULL
               ELSE categorizeTask(t)
  /\ calls' = Append(calls, [task |-> t, result |-> result'])
  /\ UNCHANGED <<progressVars, searchVars, clock, cacheVars, serverVars>>

\* One call of categorizeTask
CallsCategorize(t) ==
  /\ Len(calls) < MaxCalls
  /\ task' = t
  /\ result' = categorizeTask(t)
  /\ calls' = Append(calls, [task |-> t, result |-> result'])
  /\ UNCHANGED <<progressVars, searchVars, clock, cacheVars, serverVars>>

PureNext ==
  \/ Tick
  \/ \E data \in CachePayloads : CallSetCache("2026-Q1", data)
  \/ \E t \in PureTasks : CallsCategorize(t)

SpecPure == PureInit /\ [][PureNext]_vars

TutorialGids == {"1208125190486880", "1204316592156255"}

IsTutorialTag(tag) == IsSome(tag.gid) /\ Val(tag.gid) \in TutorialGids

\* The identifier loop reaches a tutorial tag: the list has one, and the
\* loop returns at none of the tags before the first of them.
TutorialTagReached(t) ==
  LET tags == TagsOf(t)
  IN  \E k \in DOMAIN tags :
         /\ IsTutorialTag(tags[k])
         /\ \A j \in 1 .. k - 1 :
              /\ ~IsTutorialTag(tags[j])
              /\ IsNone(Phase1Tag(tags, tags[j], toLowerCase(NameOf(t)),
                                  NameOf(t)))

\* The task carries the video tag or its name has one of the four words.
VideoCompanion(t) ==
  \/ \E k \in DOMAIN TagsOf(t) :
        TagsOf(t)[k].gid = Some("1204316592156190")
  \/ \E w \in {"video", "filmed", "recorded", "youtube"} :
        includes(toLowerCase(NameOf(t)), w)

C23_WitnessWritten ==
  /\ task = [name |-> Some("tutorial"), tags |-> Some(<<TutorialTag>>)]
  /\ result = Mapping("Documentation", "Docs")


(***************************************************************************)
(* Claims about the confirmation patterns (SpecClassify)                   *)
(***************************************************************************)
\* The deliverables the keyword phase returns only with a confirmation
ConfirmedDeliverables ==
  { Mapping("Build", "goose contributions"), Mapping("Blogs", "Blog posts"),
    Mapping("Community", "Metrics reports") }

\* The task name matches one of the confirmation patterns of the deliverable.
MatchesConfirmationPattern(taskName, deliverable) ==
  /\ deliverable \in DOMAIN CONFIRMATION_PATTERNS
  /\ \E k \in DOMAIN CONFIRMATION_PATTERNS[deliverable] :
        test(CONFIRMATION_PATTERNS[deliverable][k], taskName)

\* C24: for every task with no tags, categorizeTask returns Build / goose
\* contributions, Blogs / Blog posts or Community / Metrics reports only if
\* the task name matches at least one confirmation pattern of that
\* deliverable and none of its exclusion patterns.
C24_KeywordPhaseConfirmation ==
  (/\ Returned
   /\ TagsOf(task) = <<>>
   /\ result \in ConfirmedDeliverables)
    => /\ MatchesConfirmationPattern(NameOf(task), result.deliverable)
       /\ ~MatchesExclusionPattern(NameOf(task), result.deliverable)

\* A task without tags whose name is confirmed as a contribution to goose
C24_Witness ==
  /\ task = [name |-> Some("goose merged PR"), tags |-> None]
  /\ result = Mapping("Build", "goose contributions")


(***************************************************************************)
(* Claims about the cached flag (SpecServer)                               *)
(***************************************************************************)
\* The last answer is a progress payload that the fetch of the request
\* itself has built.
AnsweredFresh ==
  /\ lastReply.op = "progress"
  /\ lastReply.status = 200
  /\ Val(lastReply.data).id = lastReply.fetchId

\* The last answer is a progress payload taken from an entry of the cache.
AnsweredFromCache ==
  /\ lastReply.op = "progress"
  /\ lastReply.status = 200
  /\ lastReply.fetchId = 0

\* C25: a progress response carries cached = true, with cacheAge, only when
\* its data was served from a cache entry that existed when the request
\* arrived; a response whose data the request computed itself carries
\* cached = false.
C25_CachedFlag ==
  /\ AnsweredFresh
       => /\ ~Val(lastReply.data).cached
          /\ IsNone(Val(lastReply.data).cacheAge)
  /\ (lastReply.op = "progress" /\ lastReply.status = 200
      /\ Val(lastReply.data).cached)
       => AnsweredFromCache

\* A progress request has been answered from an entry stored one tick
\* before.
C25_Witness ==
  /\ AnsweredFromCache
  /\ Val(lastReply.data).cached
  /\ Val(lastReply.data).cacheAge = Some(Ms(TickSeconds))


(***************************************************************************)
(* Claims about the order of the tags (SpecClassify)                       *)
(***************************************************************************)
\* The task records that list the tags of t in another order, or the same
TagOrdersOf(t) ==
  IF IsNone(t.tags) THEN {t}
  ELSE {[t EXCEPT !.tags = Some(l)] : l \in PermutationsOf(Val(t.tags))}

\* C26: the tags of a task form a set: for every task name and every set of
\* tags, categorizeTask returns the same result for every order in which
\* the task record lists the tags.
C26_TagOrderIndependence ==
  Returned => \A reordered \in TagOrdersOf(task) :
                 categorizeTask(reordered) = result

\* The video tag and the tutorial tag give the same deliverable in either
\* order.
C26_Witness ==
  /\ task = [name |-> Some("tutorial"), tags |-> Some(<<TutorialTag, VideoTag>>)]
  /\ result = Mapping("Videos", "Tutorial videos")
  /\ categorizeTask([task EXCEPT !.tags = Some(<<VideoTag, TutorialTag>>)])
       = result


(***************************************************************************)
(* Claims about the tasks that are not counted (SpecProgress)              *)
(***************************************************************************)
\* tasks.filter(task => !categorizeTask(task)) of the uncategorized
\* handler, over the list that searchCompletedTasks returns for the dates
\* of the quarter
uncategorizedOf(tasksIn) ==
  SelectSeq(tasksIn, LAMBDA t : categorizeTask(t) = NULL)

\* The declared deliverables, the aggregate slot aside, that list the task
CountedIn(t) ==
  {pair \in goals \ {AgenticSlot} : t.gid \in ListedGids(pair)}

\* C27: for a period with configured goals, every task that the fetch of
\* the completed tasks returns is either counted in exactly one declared
\* deliverable of the quarterly progress (the slot of the agentic patterns
\* aside) or listed by the uncategorized diagnostic; no task is absent from
\* both and none is in both.
C27_NoTaskLost ==
  (progress.kind = "progress" /\ goals = QUARTERLY_GOALS_Q1) =>
    \A k \in DOMAIN tasks :
       LET listed == tasks[k] \in Range(uncategorizedOf(tasks))
       IN  \/ Cardinality(CountedIn(tasks[k])) = 1 /\ ~listed
           \/ CountedIn(tasks[k]) = {} /\ listed

\* A blog post is counted under Blogs / Blog posts and a task that no rule
\* matches is listed by the diagnostic.
C27_Witness ==
  /\ tasks = <<BlogTask, UnmatchedTask>>
  /\ goals = QUARTERLY_GOALS_Q1
  /\ progress.kind = "progress"
  /\ CountedIn(BlogTask) = {<<"Blogs", "Blog posts">>}
  /\ CountedIn(UnmatchedTask) = {}
  /\ uncategorizedOf(tasks) = <<UnmatchedTask>>


(***************************************************************************)
(* Claims about a refresh that overtakes a fetch (SpecServer)              *)
(***************************************************************************)
\* The last answer is that of a forced refresh of the quarter that has
\* completed.  Its fetch started in the turn in which the handler deleted
\* the entry, so the fetches with a smaller number started before the
\* refresh invalidated the cache.
RefreshCompleted(quarterId) ==
  /\ lastReply.op = "refresh"
  /\ lastReply.status = 200
  /\ lastReply.quarterId = quarterId

\* C28: under every interleaving of a progress request and a forced refresh
\* of the same period, once the forced refresh has completed, the cache
\* entry of the period never holds data whose fetch started before the
\* refresh invalidated the cache.
C28_NoStaleOverwrite ==
  [][\A quarterId \in RequestQuarters :
        (RefreshCompleted(quarterId) /\ quarterId \in DOMAIN cache')
          => cache'[quarterId].data.id >= lastReply.fetchId]_vars

\* A forced refresh has completed and stored its payload while the fetch of
\* a progress request for the same period, started before it, still waits
\* for the source.
C28_Witness ==
  \E h \in Handlers :
     /\ RefreshCompleted(handlers[h].quarterId)
     /\ handlers[h].op = "progress"
     /\ handlers[h].pc = "fetching"
     /\ handlers[h].fetchId < lastReply.fetchId
     /\ handlers[h].quarterId \in DOMAIN cache
     /\ cache[handlers[h].quarterId].data.id = lastReply.fetchId

=============================================================================
